---- MODULE Spec2Model ----
(***************************************************************************)
(* LinkedInCrawler (src/src/crawler/linkedin_crawler.py): the crawl        *)
(* orchestration run() and its stages setup_driver, login,                 *)
(* scrape_job_listings, deduplication and scrape_job_details.              *)
(*                                                                         *)
(* The browser and the site are the environment: every driver operation    *)
(* draws its outcome (success, TimeoutException, another exception, page   *)
(* content) from a small set.  Strings the code cuts or joins (URLs, page  *)
(* texts) are sequences of tokens; a token is a piece of text that the     *)
(* code never looks inside.                                                *)
(***************************************************************************)
EXTENDS Integers, Sequences, FiniteSets, TLC

(***************************************************************************)
(* Bounds of the model.                                                    *)
(***************************************************************************)
MaxPages == 2
\* the pages argument of the calls that show how a failed page ends the loop
MaxPaging == 3
MaxItems == 2
MaxLen == 3
MaxSearch == 2
MaxCookies == 3
MaxRuns == 2
MaxRetries == 3

(***************************************************************************)
(* Literals of the source.                                                 *)
(***************************************************************************)
\* A string of the model spells the source's string in ASCII: a character
\* outside ASCII is written as its \uXXXX escape, as json.dumps writes it
\* (the module's own text can hold ASCII only), and so is the backquote
\* (\u0060), which a string of the module cannot hold either.
\* linkedin_crawler.py:470, the literal "[抓取失败]"
FAIL_MARKER == "[\\u6293\\u53d6\\u5931\\u8d25]"
\* linkedin_crawler.py:483, the literal prefix "[抓取错误: " and suffix "]"
ERROR_PREFIX == "[\\u6293\\u53d6\\u9519\\u8bef: "
ERROR_SUFFIX == "]"
\* random.randint(1000, 9999), linkedin_crawler.py:506
RandLo == 1000
RandHi == 9999

\* Python's None, as the value of an attribute or a field
None == <<"<None>">>

(***************************************************************************)
(* Text helpers: str.strip, str.join, str.split on token sequences.        *)
(***************************************************************************)
\* the characters str.strip() removes: those str.isspace() accepts
Whitespace ==
    {"\t", "\n", "", "\f", "\r", "", "", "", "", " ", "\\u0085", "\\u00a0", "\\u1680",
     "\\u2000", "\\u2001", "\\u2002", "\\u2003", "\\u2004", "\\u2005", "\\u2006", "\\u2007",
     "\\u2008", "\\u2009", "\\u200a", "\\u2028", "\\u2029", "\\u202f", "\\u205f", "\\u3000"}

IsSpace(t) == t \in Whitespace

RECURSIVE LStrip(_)
LStrip(s) == IF s # <<>> /\ IsSpace(Head(s)) THEN LStrip(Tail(s)) ELSE s

RECURSIVE RStrip(_)
RStrip(s) ==
    IF s # <<>> /\ IsSpace(s[Len(s)]) THEN RStrip(SubSeq(s, 1, Len(s) - 1)) ELSE s

\* str.strip()
Strip(s) == RStrip(LStrip(s))

\* "".join(tokens): the string the tokens spell
RECURSIVE Join(_)
Join(s) == IF s = <<>> THEN "" ELSE Head(s) \o Join(Tail(s))

\* elem.text.strip()
StripText(raw) == Join(Strip(raw))

Contains(s, tok) == \E k \in 1..Len(s) : s[k] = tok

\* index of the first occurrence of tok in s, Len(s) + 1 when there is none
FirstIndex(s, tok) ==
    IF Contains(s, tok) THEN CHOOSE k \in 1..Len(s) : s[k] = tok /\ \A j \in 1..(k - 1) : s[j] # tok
    ELSE Len(s) + 1

\* s.split(tok)[0]
BeforeFirst(s, tok) == SubSeq(s, 1, FirstIndex(s, tok) - 1)

\* everything after the first occurrence of tok
AfterFirst(s, tok) == SubSeq(s, FirstIndex(s, tok) + 1, Len(s))

\* s.split(tok)[1], for s containing tok
SplitSecond(s, tok) == BeforeFirst(AfterFirst(s, tok), tok)

\* the generated fallback f"unknown_{int(time.time())}_{random.randint(1000, 9999)}"
unknown_id(now, rnd) == "unknown_" \o ToString(now) \o "_" \o ToString(rnd)

\* mutant of extract_job_id: a null link is returned as it is
extract_job_id_null(job_url, now, rnd) ==
    IF job_url = None THEN Join(None)
    ELSE IF Contains(job_url, "currentJobId=")
         THEN Join(BeforeFirst(SplitSecond(job_url, "currentJobId="), "&"))
    ELSE IF Contains(job_url, "/view/")
         THEN Join(BeforeFirst(SplitSecond(job_url, "/view/"), "/"))
    ELSE unknown_id(now, rnd)

\* extract_job_id(job_url); now is what time.time() returns when the fallback
\* reads it, rnd the random draw
extract_job_id(job_url, now, rnd) ==
    IF job_url = None THEN unknown_id(now, rnd)
    ELSE IF Contains(job_url, "currentJobId=")
         THEN Join(BeforeFirst(SplitSecond(job_url, "currentJobId="), "&"))
    ELSE IF Contains(job_url, "/view/")
         THEN Join(BeforeFirst(SplitSecond(job_url, "/view/"), "/"))
    ELSE unknown_id(now, rnd)

(***************************************************************************)
(* construct_search_url.  Keywords and locations are token sequences: a    *)
(* token is one space or a piece of text without spaces.                   *)
(***************************************************************************)
Python == <<"python">>
ML == <<"ml">>
US == <<"US">>
UK == <<"UK">>
NewYork == <<"New", " ", "York">>
DataEngineer == <<"Data", " ", "Engineer">>
UnitedStates == <<"United", " ", "States">>
\* leading, trailing and consecutive spaces
Padded == <<" ", "R", " ", " ", "D", " ">>

PAGE_SIZE == 25
BASE_URL == "https://www.linkedin.com/jobs/search/"
RECENCY == "f_TPR=r86400"
GEOGRAPHY == "geoId=92000000"

\* mutant of replace_spaces: only the first space is replaced
replace_first_space(s) ==
    [k \in 1..Len(s) |-> IF s[k] = " " /\ k = FirstIndex(s, " ") THEN "%20" ELSE s[k]]

\* s.replace(' ', '%20')
replace_spaces(s) == [k \in 1..Len(s) |-> IF s[k] = " " THEN "%20" ELSE s[k]]

\* "&".join(params), params a sequence of token sequences
RECURSIVE JoinWith(_, _)
JoinWith(params, sep) ==
    IF params = <<>> THEN <<>>
    ELSE IF Len(params) = 1 THEN Head(params)
    ELSE Head(params) \o <<sep>> \o JoinWith(Tail(params), sep)

construct_search_url(kwd, loc, p) ==
    LET keyword_encoded == replace_spaces(kwd)
        location_encoded == replace_spaces(loc)
        start == (p - 1) * PAGE_SIZE
        params == << <<"keywords=">> \o keyword_encoded,
                     <<"location=">> \o location_encoded,
                     <<RECENCY>>,
                     <<GEOGRAPHY>>,
                     <<"start=", ToString(start)>> >>
    IN  <<BASE_URL, "?">> \o JoinWith(params, "&")

(***************************************************************************)
(* The environment: exceptions, result items of a listing page, outcomes   *)
(* of loading a listing page.                                              *)
(***************************************************************************)
NoExc == [type |-> "", msg |-> ""]
TimeoutExc == [type |-> "TimeoutException", msg |-> "Message: timeout"]
DriverExc == [type |-> "WebDriverException", msg |-> "Message: net::ERR"]
StartExc == [type |-> "SessionNotCreatedException", msg |-> "Message: no chrome"]
Exceptions == {TimeoutExc, DriverExc}

\* find_element on a result item raised NoSuchElementException
Missing == <<"<missing>">>

ItemA == [link |-> <<"https://li/jobs", "/view/", "101", "/", "?", "refId=1">>,
          title |-> <<"Dev">>, company |-> <<"Acme">>, location |-> <<"NYC">>]
ItemB == [link |-> <<"https://li/jobs/search", "?", "currentJobId=", "202", "&", "pos=1">>,
          title |-> <<" ", "Eng", " ">>, company |-> <<"Bolt">>, location |-> <<"SF">>]
ItemA2 == [link |-> <<"https://li/jobs", "/view/", "101", "/">>,
           title |-> <<"Dev", " ", "II">>, company |-> <<"Acme">>, location |-> <<"NYC">>]
ItemC == [link |-> <<"https://li/jobs", "/view/", "505", "/">>,
          title |-> <<"SRE">>, company |-> <<"Core">>, location |-> <<"SF">>]
ItemD == [link |-> <<"https://li/jobs/search", "?", "currentJobId=", "606">>,
          title |-> <<"PM">>, company |-> <<"Dyn">>, location |-> <<"NYC">>]
ItemNoId == [link |-> <<"https://li/jobs/collections">>,
             title |-> <<"Ops">>, company |-> <<"Core">>, location |-> <<"LA">>]
ItemNoHref == [link |-> None,
               title |-> <<"QA">>, company |-> <<"Dyn">>, location |-> <<"LA">>]
ItemNoTitle == [link |-> <<"https://li/jobs", "/view/", "303", "/">>,
                title |-> Missing, company |-> <<"Edge">>, location |-> <<"LA">>]

ItemNoLink == [link |-> Missing,
               title |-> <<"Ops">>, company |-> <<"Fern">>, location |-> <<"SF">>]

PageItems == <<ItemA, ItemNoTitle, ItemB, ItemNoLink, ItemNoHref>>
\* the result pages served to a direct call: up to n of the items, in order
PagesUpTo(n) ==
    LET idx == {s \in UNION {[1..k -> 1..Len(PageItems)] : k \in 0..n} :
                    \A a \in 1..Len(s), b \in 1..Len(s) : a < b => s[a] < s[b]}
    IN  {[k \in 1..Len(s) |-> PageItems[s[k]]] : s \in idx}
\* the result pages served during a run()
RunPages == {<<>>, <<ItemA>>, <<ItemA, ItemB>>, <<ItemB, ItemA2>>}
\* the same with a page of 3 items and a page of 2 that share one job_id, and
\* a page of an item without title and two items without a job_id in the link
ScenarioPages ==
    RunPages \cup {<<ItemA, ItemB, ItemC>>, <<ItemA2, ItemD>>,
                    <<ItemNoTitle, ItemNoId, ItemNoHref>>}

SeqsUpTo(S, n) == UNION {[1..k -> S] : k \in 0..n}

Rands == {RandLo, RandHi}

\* extract_job_id takes its fallback branch
NeedsRand(link) ==
    link = None \/ (~Contains(link, "currentJobId=") /\ ~Contains(link, "/view/"))

\* one random draw per item; the draw of an item that does not use it is fixed
RandDraws(items) ==
    {r \in [1..Len(items) -> Rands] :
        \A k \in 1..Len(items) :
            (items[k].link = Missing \/ ~NeedsRand(items[k].link)) => r[k] = RandLo}

PageOutcome(kind, e, items) == [kind |-> kind, e |-> e, items |-> items]

PageFailures ==
    {PageOutcome("get_error", e, <<>>) : e \in Exceptions}
    \cup {PageOutcome("wait_timeout", TimeoutExc, <<>>)}
    \cup {PageOutcome("enum_error", e, <<>>) : e \in Exceptions}

\* the result pages served to a direct call of scrape_job_listings
AnyPages == PagesUpTo(MaxItems)

\* the result pages a site can serve
Served(st) ==
    CASE st = "run" -> RunPages
      [] st = "scenario" -> ScenarioPages
      [] st = "setup" -> RunPages
      [] st = "rerun" -> RunPages
      [] st = "any" -> AnyPages
      [] st = "paging" -> RunPages
      [] OTHER -> {}

PageOutcomes(ent, served) ==
    (IF ent = "run"
     THEN {PageOutcome("get_error", DriverExc, <<>>), PageOutcome("wait_timeout", TimeoutExc, <<>>)}
     ELSE PageFailures)
    \cup {PageOutcome("found", NoExc, its) : its \in served}

(***************************************************************************)
(* take_screenshot(name): "off" is save_screenshots disabled, "error" an    *)
(* exception of datetime, os.path.join or driver.save_screenshot.          *)
(***************************************************************************)
ShotOutcomes == {"off", "ok", "error"}
ShotExc == [type |-> "WebDriverException", msg |-> "Message: screenshot failed"]

\* mutant of take_screenshot: no try block around save_screenshot
take_screenshot_unguarded(shot) == IF shot = "error" THEN ShotExc ELSE NoExc

\* the exception that leaves take_screenshot: its except clause logs and returns
take_screenshot(shot) == NoExc

\* the exceptions that can leave a handler that calls take_screenshot
AfterScreenshot == {take_screenshot(shot) : shot \in ShotOutcomes}

(***************************************************************************)
(* scrape_job_listings: extraction of the result items of one page.        *)
(***************************************************************************)
\* the four find_element calls of one item all succeed
ItemExtracted(it) ==
    it.link # Missing /\ it.title # Missing /\ it.company # Missing /\ it.location # Missing

\* seconds that pass between the delay after the page load and a clock read
\* of the item loop.  Like the pages it serves, they belong to the site: the
\* end-to-end scenario has reads in the same second and reads a second
\* later, the other sites answer within the second.
Drifts(st) == IF st = "scenario" THEN {0, 1} ELSE {0}

\* the two clock reads of each item: "id" is time.time() in extract_job_id,
\* "crawl" is datetime.now() when the record is built.  The reads of a page
\* never go back; a read that is not made, or whose record is dropped, is
\* fixed
TimeDraws(items, drifts) ==
    {t \in [1..Len(items) -> [id : drifts, crawl : drifts]] :
        \A k \in 1..Len(items) :
            LET before == IF k = 1 THEN 0 ELSE t[k - 1].crawl
                kept == ItemExtracted(items[k])
            IN  /\ before <= t[k].id /\ t[k].id <= t[k].crawl
                /\ (~kept \/ ~NeedsRand(items[k].link)) => t[k].id = t[k].crawl
                /\ ~kept => t[k].crawl = before}

\* the job_data dictionary of one result item (linkedin_crawler.py:365-374):
\* id_now is the clock extract_job_id reads (350), now the clock read at 373
listing_record(it, kwd, loc, id_now, now, rnd) ==
    [job_id |-> extract_job_id(it.link, id_now, rnd),
     job_title |-> StripText(it.title),
     company |-> StripText(it.company),
     location |-> StripText(it.location),
     job_link |-> it.link,
     search_keyword |-> kwd,
     search_location |-> loc,
     crawl_time |-> now]

RECURSIVE extract_items(_, _, _, _, _, _)
\* mutant of extract_items: an item whose extraction raises ends the loop
extract_items_stop(items, rnds, times, kwd, loc, settled) ==
    IF items = <<>> \/ ~ItemExtracted(Head(items)) THEN <<>>
    ELSE <<listing_record(Head(items), kwd, loc, settled + Head(times).id,
                          settled + Head(times).crawl, Head(rnds))>>
         \o extract_items(Tail(items), Tail(rnds), Tail(times), kwd, loc, settled)

\* the loop over job_items: an item whose extraction raises is dropped;
\* settled is the clock after the page's delay, times the seconds that have
\* passed since at each item's two clock reads
extract_items(items, rnds, times, kwd, loc, settled) ==
    IF items = <<>> THEN <<>>
    ELSE LET rest == extract_items(Tail(items), Tail(rnds), Tail(times), kwd, loc, settled)
         IN IF ItemExtracted(Head(items))
            THEN <<listing_record(Head(items), kwd, loc, settled + Head(times).id,
                                  settled + Head(times).crawl, Head(rnds))>> \o rest
            ELSE rest

\* the page's outcome is caught by "except TimeoutException" and the page skipped
PageSkipped(o) ==
    o.kind = "wait_timeout" \/ (o.kind = "enum_error" /\ o.e.type = "TimeoutException")

\* the page's outcome reaches the outer "except Exception" and ends the loop
PageAborts(o) ==
    o.kind = "get_error" \/ (o.kind = "enum_error" /\ o.e.type # "TimeoutException")

(***************************************************************************)
(* Dictionaries (Python dict with string keys) as functions.               *)
(***************************************************************************)
EmptyDict == [k \in {} |-> ""]

\* d[k] = v
Put(d, k, v) == [x \in DOMAIN d \cup {k} |-> IF x = k THEN v ELSE d[x]]

\* d.update(e)
Update(d, e) == [x \in DOMAIN d \cup DOMAIN e |-> IF x \in DOMAIN e THEN e[x] ELSE d[x]]

(***************************************************************************)
(* scrape_job_details: the outcomes of one detail page and the record      *)
(* built from each.                                                        *)
(***************************************************************************)
\* Labels are sequences of single characters.
\* str.lower() of one character taken by itself: the characters that have
\* a lowercase mapping, each with the characters it becomes
LowerPairs ==
    {<<"A", <<"a">>>>, <<"B", <<"b">>>>, <<"C", <<"c">>>>, <<"D", <<"d">>>>, <<"E", <<"e">>>>,
     <<"F", <<"f">>>>, <<"G", <<"g">>>>, <<"H", <<"h">>>>, <<"I", <<"i">>>>, <<"J", <<"j">>>>,
     <<"K", <<"k">>>>, <<"L", <<"l">>>>, <<"M", <<"m">>>>, <<"N", <<"n">>>>, <<"O", <<"o">>>>,
     <<"P", <<"p">>>>, <<"Q", <<"q">>>>, <<"R", <<"r">>>>, <<"S", <<"s">>>>, <<"T", <<"t">>>>,
     <<"U", <<"u">>>>, <<"V", <<"v">>>>, <<"W", <<"w">>>>, <<"X", <<"x">>>>, <<"Y", <<"y">>>>,
     <<"Z", <<"z">>>>, <<"\\u00c0", <<"\\u00e0">>>>, <<"\\u00c1", <<"\\u00e1">>>>,
     <<"\\u00c2", <<"\\u00e2">>>>, <<"\\u00c3", <<"\\u00e3">>>>, <<"\\u00c4", <<"\\u00e4">>>>,
     <<"\\u00c5", <<"\\u00e5">>>>, <<"\\u00c6", <<"\\u00e6">>>>, <<"\\u00c7", <<"\\u00e7">>>>,
     <<"\\u00c8", <<"\\u00e8">>>>, <<"\\u00c9", <<"\\u00e9">>>>, <<"\\u00ca", <<"\\u00ea">>>>,
     <<"\\u00cb", <<"\\u00eb">>>>, <<"\\u00cc", <<"\\u00ec">>>>, <<"\\u00cd", <<"\\u00ed">>>>,
     <<"\\u00ce", <<"\\u00ee">>>>, <<"\\u00cf", <<"\\u00ef">>>>, <<"\\u00d0", <<"\\u00f0">>>>,
     <<"\\u00d1", <<"\\u00f1">>>>, <<"\\u00d2", <<"\\u00f2">>>>, <<"\\u00d3", <<"\\u00f3">>>>,
     <<"\\u00d4", <<"\\u00f4">>>>, <<"\\u00d5", <<"\\u00f5">>>>, <<"\\u00d6", <<"\\u00f6">>>>,
     <<"\\u00d8", <<"\\u00f8">>>>, <<"\\u00d9", <<"\\u00f9">>>>, <<"\\u00da", <<"\\u00fa">>>>,
     <<"\\u00db", <<"\\u00fb">>>>, <<"\\u00dc", <<"\\u00fc">>>>, <<"\\u00dd", <<"\\u00fd">>>>,
     <<"\\u00de", <<"\\u00fe">>>>, <<"\\u0100", <<"\\u0101">>>>, <<"\\u0102", <<"\\u0103">>>>,
     <<"\\u0104", <<"\\u0105">>>>, <<"\\u0106", <<"\\u0107">>>>, <<"\\u0108", <<"\\u0109">>>>,
     <<"\\u010a", <<"\\u010b">>>>, <<"\\u010c", <<"\\u010d">>>>, <<"\\u010e", <<"\\u010f">>>>,
     <<"\\u0110", <<"\\u0111">>>>, <<"\\u0112", <<"\\u0113">>>>, <<"\\u0114", <<"\\u0115">>>>,
     <<"\\u0116", <<"\\u0117">>>>, <<"\\u0118", <<"\\u0119">>>>, <<"\\u011a", <<"\\u011b">>>>,
     <<"\\u011c", <<"\\u011d">>>>, <<"\\u011e", <<"\\u011f">>>>, <<"\\u0120", <<"\\u0121">>>>,
     <<"\\u0122", <<"\\u0123">>>>, <<"\\u0124", <<"\\u0125">>>>, <<"\\u0126", <<"\\u0127">>>>,
     <<"\\u0128", <<"\\u0129">>>>, <<"\\u012a", <<"\\u012b">>>>, <<"\\u012c", <<"\\u012d">>>>,
     <<"\\u012e", <<"\\u012f">>>>, <<"\\u0130", <<"i", "\\u0307">>>>, <<"\\u0132", <<"\\u0133">>>>,
     <<"\\u0134", <<"\\u0135">>>>, <<"\\u0136", <<"\\u0137">>>>, <<"\\u0139", <<"\\u013a">>>>,
     <<"\\u013b", <<"\\u013c">>>>, <<"\\u013d", <<"\\u013e">>>>, <<"\\u013f", <<"\\u0140">>>>,
     <<"\\u0141", <<"\\u0142">>>>, <<"\\u0143", <<"\\u0144">>>>, <<"\\u0145", <<"\\u0146">>>>,
     <<"\\u0147", <<"\\u0148">>>>, <<"\\u014a", <<"\\u014b">>>>, <<"\\u014c", <<"\\u014d">>>>,
     <<"\\u014e", <<"\\u014f">>>>, <<"\\u0150", <<"\\u0151">>>>, <<"\\u0152", <<"\\u0153">>>>,
     <<"\\u0154", <<"\\u0155">>>>, <<"\\u0156", <<"\\u0157">>>>, <<"\\u0158", <<"\\u0159">>>>,
     <<"\\u015a", <<"\\u015b">>>>, <<"\\u015c", <<"\\u015d">>>>, <<"\\u015e", <<"\\u015f">>>>,
     <<"\\u0160", <<"\\u0161">>>>, <<"\\u0162", <<"\\u0163">>>>, <<"\\u0164", <<"\\u0165">>>>,
     <<"\\u0166", <<"\\u0167">>>>, <<"\\u0168", <<"\\u0169">>>>, <<"\\u016a", <<"\\u016b">>>>,
     <<"\\u016c", <<"\\u016d">>>>, <<"\\u016e", <<"\\u016f">>>>, <<"\\u0170", <<"\\u0171">>>>,
     <<"\\u0172", <<"\\u0173">>>>, <<"\\u0174", <<"\\u0175">>>>, <<"\\u0176", <<"\\u0177">>>>,
     <<"\\u0178", <<"\\u00ff">>>>, <<"\\u0179", <<"\\u017a">>>>, <<"\\u017b", <<"\\u017c">>>>,
     <<"\\u017d", <<"\\u017e">>>>, <<"\\u0181", <<"\\u0253">>>>, <<"\\u0182", <<"\\u0183">>>>,
     <<"\\u0184", <<"\\u0185">>>>, <<"\\u0186", <<"\\u0254">>>>, <<"\\u0187", <<"\\u0188">>>>,
     <<"\\u0189", <<"\\u0256">>>>, <<"\\u018a", <<"\\u0257">>>>, <<"\\u018b", <<"\\u018c">>>>,
     <<"\\u018e", <<"\\u01dd">>>>, <<"\\u018f", <<"\\u0259">>>>, <<"\\u0190", <<"\\u025b">>>>,
     <<"\\u0191", <<"\\u0192">>>>, <<"\\u0193", <<"\\u0260">>>>, <<"\\u0194", <<"\\u0263">>>>,
     <<"\\u0196", <<"\\u0269">>>>, <<"\\u0197", <<"\\u0268">>>>, <<"\\u0198", <<"\\u0199">>>>,
     <<"\\u019c", <<"\\u026f">>>>, <<"\\u019d", <<"\\u0272">>>>, <<"\\u019f", <<"\\u0275">>>>,
     <<"\\u01a0", <<"\\u01a1">>>>, <<"\\u01a2", <<"\\u01a3">>>>, <<"\\u01a4", <<"\\u01a5">>>>,
     <<"\\u01a6", <<"\\u0280">>>>, <<"\\u01a7", <<"\\u01a8">>>>, <<"\\u01a9", <<"\\u0283">>>>,
     <<"\\u01ac", <<"\\u01ad">>>>, <<"\\u01ae", <<"\\u0288">>>>, <<"\\u01af", <<"\\u01b0">>>>,
     <<"\\u01b1", <<"\\u028a">>>>, <<"\\u01b2", <<"\\u028b">>>>, <<"\\u01b3", <<"\\u01b4">>>>,
     <<"\\u01b5", <<"\\u01b6">>>>, <<"\\u01b7", <<"\\u0292">>>>, <<"\\u01b8", <<"\\u01b9">>>>,
     <<"\\u01bc", <<"\\u01bd">>>>, <<"\\u01c4", <<"\\u01c6">>>>, <<"\\u01c5", <<"\\u01c6">>>>,
     <<"\\u01c7", <<"\\u01c9">>>>, <<"\\u01c8", <<"\\u01c9">>>>, <<"\\u01ca", <<"\\u01cc">>>>,
     <<"\\u01cb", <<"\\u01cc">>>>, <<"\\u01cd", <<"\\u01ce">>>>, <<"\\u01cf", <<"\\u01d0">>>>,
     <<"\\u01d1", <<"\\u01d2">>>>, <<"\\u01d3", <<"\\u01d4">>>>, <<"\\u01d5", <<"\\u01d6">>>>,
     <<"\\u01d7", <<"\\u01d8">>>>, <<"\\u01d9", <<"\\u01da">>>>, <<"\\u01db", <<"\\u01dc">>>>,
     <<"\\u01de", <<"\\u01df">>>>, <<"\\u01e0", <<"\\u01e1">>>>, <<"\\u01e2", <<"\\u01e3">>>>,
     <<"\\u01e4", <<"\\u01e5">>>>, <<"\\u01e6", <<"\\u01e7">>>>, <<"\\u01e8", <<"\\u01e9">>>>,
     <<"\\u01ea", <<"\\u01eb">>>>, <<"\\u01ec", <<"\\u01ed">>>>, <<"\\u01ee", <<"\\u01ef">>>>,
     <<"\\u01f1", <<"\\u01f3">>>>, <<"\\u01f2", <<"\\u01f3">>>>, <<"\\u01f4", <<"\\u01f5">>>>,
     <<"\\u01f6", <<"\\u0195">>>>, <<"\\u01f7", <<"\\u01bf">>>>, <<"\\u01f8", <<"\\u01f9">>>>,
     <<"\\u01fa", <<"\\u01fb">>>>, <<"\\u01fc", <<"\\u01fd">>>>, <<"\\u01fe", <<"\\u01ff">>>>,
     <<"\\u0200", <<"\\u0201">>>>, <<"\\u0202", <<"\\u0203">>>>, <<"\\u0204", <<"\\u0205">>>>,
     <<"\\u0206", <<"\\u0207">>>>, <<"\\u0208", <<"\\u0209">>>>, <<"\\u020a", <<"\\u020b">>>>,
     <<"\\u020c", <<"\\u020d">>>>, <<"\\u020e", <<"\\u020f">>>>, <<"\\u0210", <<"\\u0211">>>>,
     <<"\\u0212", <<"\\u0213">>>>, <<"\\u0214", <<"\\u0215">>>>, <<"\\u0216", <<"\\u0217">>>>,
     <<"\\u0218", <<"\\u0219">>>>, <<"\\u021a", <<"\\u021b">>>>, <<"\\u021c", <<"\\u021d">>>>,
     <<"\\u021e", <<"\\u021f">>>>, <<"\\u0220", <<"\\u019e">>>>, <<"\\u0222", <<"\\u0223">>>>,
     <<"\\u0224", <<"\\u0225">>>>, <<"\\u0226", <<"\\u0227">>>>, <<"\\u0228", <<"\\u0229">>>>,
     <<"\\u022a", <<"\\u022b">>>>, <<"\\u022c", <<"\\u022d">>>>, <<"\\u022e", <<"\\u022f">>>>,
     <<"\\u0230", <<"\\u0231">>>>, <<"\\u0232", <<"\\u0233">>>>, <<"\\u023a", <<"\\u2c65">>>>,
     <<"\\u023b", <<"\\u023c">>>>, <<"\\u023d", <<"\\u019a">>>>, <<"\\u023e", <<"\\u2c66">>>>,
     <<"\\u0241", <<"\\u0242">>>>, <<"\\u0243", <<"\\u0180">>>>, <<"\\u0244", <<"\\u0289">>>>,
     <<"\\u0245", <<"\\u028c">>>>, <<"\\u0246", <<"\\u0247">>>>, <<"\\u0248", <<"\\u0249">>>>,
     <<"\\u024a", <<"\\u024b">>>>, <<"\\u024c", <<"\\u024d">>>>, <<"\\u024e", <<"\\u024f">>>>,
     <<"\\u0370", <<"\\u0371">>>>, <<"\\u0372", <<"\\u0373">>>>, <<"\\u0376", <<"\\u0377">>>>,
     <<"\\u037f", <<"\\u03f3">>>>, <<"\\u0386", <<"\\u03ac">>>>, <<"\\u0388", <<"\\u03ad">>>>,
     <<"\\u0389", <<"\\u03ae">>>>, <<"\\u038a", <<"\\u03af">>>>, <<"\\u038c", <<"\\u03cc">>>>,
     <<"\\u038e", <<"\\u03cd">>>>, <<"\\u038f", <<"\\u03ce">>>>, <<"\\u0391", <<"\\u03b1">>>>,
     <<"\\u0392", <<"\\u03b2">>>>, <<"\\u0393", <<"\\u03b3">>>>, <<"\\u0394", <<"\\u03b4">>>>,
     <<"\\u0395", <<"\\u03b5">>>>, <<"\\u0396", <<"\\u03b6">>>>, <<"\\u0397", <<"\\u03b7">>>>,
     <<"\\u0398", <<"\\u03b8">>>>, <<"\\u0399", <<"\\u03b9">>>>, <<"\\u039a", <<"\\u03ba">>>>,
     <<"\\u039b", <<"\\u03bb">>>>, <<"\\u039c", <<"\\u03bc">>>>, <<"\\u039d", <<"\\u03bd">>>>,
     <<"\\u039e", <<"\\u03be">>>>, <<"\\u039f", <<"\\u03bf">>>>, <<"\\u03a0", <<"\\u03c0">>>>,
     <<"\\u03a1", <<"\\u03c1">>>>, <<"\\u03a3", <<"\\u03c3">>>>, <<"\\u03a4", <<"\\u03c4">>>>,
     <<"\\u03a5", <<"\\u03c5">>>>, <<"\\u03a6", <<"\\u03c6">>>>, <<"\\u03a7", <<"\\u03c7">>>>,
     <<"\\u03a8", <<"\\u03c8">>>>, <<"\\u03a9", <<"\\u03c9">>>>, <<"\\u03aa", <<"\\u03ca">>>>,
     <<"\\u03ab", <<"\\u03cb">>>>, <<"\\u03cf", <<"\\u03d7">>>>, <<"\\u03d8", <<"\\u03d9">>>>,
     <<"\\u03da", <<"\\u03db">>>>, <<"\\u03dc", <<"\\u03dd">>>>, <<"\\u03de", <<"\\u03df">>>>,
     <<"\\u03e0", <<"\\u03e1">>>>, <<"\\u03e2", <<"\\u03e3">>>>, <<"\\u03e4", <<"\\u03e5">>>>,
     <<"\\u03e6", <<"\\u03e7">>>>, <<"\\u03e8", <<"\\u03e9">>>>, <<"\\u03ea", <<"\\u03eb">>>>,
     <<"\\u03ec", <<"\\u03ed">>>>, <<"\\u03ee", <<"\\u03ef">>>>, <<"\\u03f4", <<"\\u03b8">>>>,
     <<"\\u03f7", <<"\\u03f8">>>>, <<"\\u03f9", <<"\\u03f2">>>>, <<"\\u03fa", <<"\\u03fb">>>>,
     <<"\\u03fd", <<"\\u037b">>>>, <<"\\u03fe", <<"\\u037c">>>>, <<"\\u03ff", <<"\\u037d">>>>,
     <<"\\u0400", <<"\\u0450">>>>, <<"\\u0401", <<"\\u0451">>>>, <<"\\u0402", <<"\\u0452">>>>,
     <<"\\u0403", <<"\\u0453">>>>, <<"\\u0404", <<"\\u0454">>>>, <<"\\u0405", <<"\\u0455">>>>,
     <<"\\u0406", <<"\\u0456">>>>, <<"\\u0407", <<"\\u0457">>>>, <<"\\u0408", <<"\\u0458">>>>,
     <<"\\u0409", <<"\\u0459">>>>, <<"\\u040a", <<"\\u045a">>>>, <<"\\u040b", <<"\\u045b">>>>,
     <<"\\u040c", <<"\\u045c">>>>, <<"\\u040d", <<"\\u045d">>>>, <<"\\u040e", <<"\\u045e">>>>,
     <<"\\u040f", <<"\\u045f">>>>, <<"\\u0410", <<"\\u0430">>>>, <<"\\u0411", <<"\\u0431">>>>,
     <<"\\u0412", <<"\\u0432">>>>, <<"\\u0413", <<"\\u0433">>>>, <<"\\u0414", <<"\\u0434">>>>,
     <<"\\u0415", <<"\\u0435">>>>, <<"\\u0416", <<"\\u0436">>>>, <<"\\u0417", <<"\\u0437">>>>,
     <<"\\u0418", <<"\\u0438">>>>, <<"\\u0419", <<"\\u0439">>>>, <<"\\u041a", <<"\\u043a">>>>,
     <<"\\u041b", <<"\\u043b">>>>, <<"\\u041c", <<"\\u043c">>>>, <<"\\u041d", <<"\\u043d">>>>,
     <<"\\u041e", <<"\\u043e">>>>, <<"\\u041f", <<"\\u043f">>>>, <<"\\u0420", <<"\\u0440">>>>,
     <<"\\u0421", <<"\\u0441">>>>, <<"\\u0422", <<"\\u0442">>>>, <<"\\u0423", <<"\\u0443">>>>,
     <<"\\u0424", <<"\\u0444">>>>, <<"\\u0425", <<"\\u0445">>>>, <<"\\u0426", <<"\\u0446">>>>,
     <<"\\u0427", <<"\\u0447">>>>, <<"\\u0428", <<"\\u0448">>>>, <<"\\u0429", <<"\\u0449">>>>,
     <<"\\u042a", <<"\\u044a">>>>, <<"\\u042b", <<"\\u044b">>>>, <<"\\u042c", <<"\\u044c">>>>,
     <<"\\u042d", <<"\\u044d">>>>, <<"\\u042e", <<"\\u044e">>>>, <<"\\u042f", <<"\\u044f">>>>,
     <<"\\u0460", <<"\\u0461">>>>, <<"\\u0462", <<"\\u0463">>>>, <<"\\u0464", <<"\\u0465">>>>,
     <<"\\u0466", <<"\\u0467">>>>, <<"\\u0468", <<"\\u0469">>>>, <<"\\u046a", <<"\\u046b">>>>,
     <<"\\u046c", <<"\\u046d">>>>, <<"\\u046e", <<"\\u046f">>>>, <<"\\u0470", <<"\\u0471">>>>,
     <<"\\u0472", <<"\\u0473">>>>, <<"\\u0474", <<"\\u0475">>>>, <<"\\u0476", <<"\\u0477">>>>,
     <<"\\u0478", <<"\\u0479">>>>, <<"\\u047a", <<"\\u047b">>>>, <<"\\u047c", <<"\\u047d">>>>,
     <<"\\u047e", <<"\\u047f">>>>, <<"\\u0480", <<"\\u0481">>>>, <<"\\u048a", <<"\\u048b">>>>,
     <<"\\u048c", <<"\\u048d">>>>, <<"\\u048e", <<"\\u048f">>>>, <<"\\u0490", <<"\\u0491">>>>,
     <<"\\u0492", <<"\\u0493">>>>, <<"\\u0494", <<"\\u0495">>>>, <<"\\u0496", <<"\\u0497">>>>,
     <<"\\u0498", <<"\\u0499">>>>, <<"\\u049a", <<"\\u049b">>>>, <<"\\u049c", <<"\\u049d">>>>,
     <<"\\u049e", <<"\\u049f">>>>, <<"\\u04a0", <<"\\u04a1">>>>, <<"\\u04a2", <<"\\u04a3">>>>,
     <<"\\u04a4", <<"\\u04a5">>>>, <<"\\u04a6", <<"\\u04a7">>>>, <<"\\u04a8", <<"\\u04a9">>>>,
     <<"\\u04aa", <<"\\u04ab">>>>, <<"\\u04ac", <<"\\u04ad">>>>, <<"\\u04ae", <<"\\u04af">>>>,
     <<"\\u04b0", <<"\\u04b1">>>>, <<"\\u04b2", <<"\\u04b3">>>>, <<"\\u04b4", <<"\\u04b5">>>>,
     <<"\\u04b6", <<"\\u04b7">>>>, <<"\\u04b8", <<"\\u04b9">>>>, <<"\\u04ba", <<"\\u04bb">>>>,
     <<"\\u04bc", <<"\\u04bd">>>>, <<"\\u04be", <<"\\u04bf">>>>, <<"\\u04c0", <<"\\u04cf">>>>,
     <<"\\u04c1", <<"\\u04c2">>>>, <<"\\u04c3", <<"\\u04c4">>>>, <<"\\u04c5", <<"\\u04c6">>>>,
     <<"\\u04c7", <<"\\u04c8">>>>, <<"\\u04c9", <<"\\u04ca">>>>, <<"\\u04cb", <<"\\u04cc">>>>,
     <<"\\u04cd", <<"\\u04ce">>>>, <<"\\u04d0", <<"\\u04d1">>>>, <<"\\u04d2", <<"\\u04d3">>>>,
     <<"\\u04d4", <<"\\u04d5">>>>, <<"\\u04d6", <<"\\u04d7">>>>, <<"\\u04d8", <<"\\u04d9">>>>,
     <<"\\u04da", <<"\\u04db">>>>, <<"\\u04dc", <<"\\u04dd">>>>, <<"\\u04de", <<"\\u04df">>>>,
     <<"\\u04e0", <<"\\u04e1">>>>, <<"\\u04e2", <<"\\u04e3">>>>, <<"\\u04e4", <<"\\u04e5">>>>,
     <<"\\u04e6", <<"\\u04e7">>>>, <<"\\u04e8", <<"\\u04e9">>>>, <<"\\u04ea", <<"\\u04eb">>>>,
     <<"\\u04ec", <<"\\u04ed">>>>, <<"\\u04ee", <<"\\u04ef">>>>, <<"\\u04f0", <<"\\u04f1">>>>,
     <<"\\u04f2", <<"\\u04f3">>>>, <<"\\u04f4", <<"\\u04f5">>>>, <<"\\u04f6", <<"\\u04f7">>>>,
     <<"\\u04f8", <<"\\u04f9">>>>, <<"\\u04fa", <<"\\u04fb">>>>, <<"\\u04fc", <<"\\u04fd">>>>,
     <<"\\u04fe", <<"\\u04ff">>>>, <<"\\u0500", <<"\\u0501">>>>, <<"\\u0502", <<"\\u0503">>>>,
     <<"\\u0504", <<"\\u0505">>>>, <<"\\u0506", <<"\\u0507">>>>, <<"\\u0508", <<"\\u0509">>>>,
     <<"\\u050a", <<"\\u050b">>>>, <<"\\u050c", <<"\\u050d">>>>, <<"\\u050e", <<"\\u050f">>>>,
     <<"\\u0510", <<"\\u0511">>>>, <<"\\u0512", <<"\\u0513">>>>, <<"\\u0514", <<"\\u0515">>>>,
     <<"\\u0516", <<"\\u0517">>>>, <<"\\u0518", <<"\\u0519">>>>, <<"\\u051a", <<"\\u051b">>>>,
     <<"\\u051c", <<"\\u051d">>>>, <<"\\u051e", <<"\\u051f">>>>, <<"\\u0520", <<"\\u0521">>>>,
     <<"\\u0522", <<"\\u0523">>>>, <<"\\u0524", <<"\\u0525">>>>, <<"\\u0526", <<"\\u0527">>>>,
     <<"\\u0528", <<"\\u0529">>>>, <<"\\u052a", <<"\\u052b">>>>, <<"\\u052c", <<"\\u052d">>>>,
     <<"\\u052e", <<"\\u052f">>>>, <<"\\u0531", <<"\\u0561">>>>, <<"\\u0532", <<"\\u0562">>>>,
     <<"\\u0533", <<"\\u0563">>>>, <<"\\u0534", <<"\\u0564">>>>, <<"\\u0535", <<"\\u0565">>>>,
     <<"\\u0536", <<"\\u0566">>>>, <<"\\u0537", <<"\\u0567">>>>, <<"\\u0538", <<"\\u0568">>>>,
     <<"\\u0539", <<"\\u0569">>>>, <<"\\u053a", <<"\\u056a">>>>, <<"\\u053b", <<"\\u056b">>>>,
     <<"\\u053c", <<"\\u056c">>>>, <<"\\u053d", <<"\\u056d">>>>, <<"\\u053e", <<"\\u056e">>>>,
     <<"\\u053f", <<"\\u056f">>>>, <<"\\u0540", <<"\\u0570">>>>, <<"\\u0541", <<"\\u0571">>>>,
     <<"\\u0542", <<"\\u0572">>>>, <<"\\u0543", <<"\\u0573">>>>, <<"\\u0544", <<"\\u0574">>>>,
     <<"\\u0545", <<"\\u0575">>>>, <<"\\u0546", <<"\\u0576">>>>, <<"\\u0547", <<"\\u0577">>>>,
     <<"\\u0548", <<"\\u0578">>>>, <<"\\u0549", <<"\\u0579">>>>, <<"\\u054a", <<"\\u057a">>>>,
     <<"\\u054b", <<"\\u057b">>>>, <<"\\u054c", <<"\\u057c">>>>, <<"\\u054d", <<"\\u057d">>>>,
     <<"\\u054e", <<"\\u057e">>>>, <<"\\u054f", <<"\\u057f">>>>, <<"\\u0550", <<"\\u0580">>>>,
     <<"\\u0551", <<"\\u0581">>>>, <<"\\u0552", <<"\\u0582">>>>, <<"\\u0553", <<"\\u0583">>>>,
     <<"\\u0554", <<"\\u0584">>>>, <<"\\u0555", <<"\\u0585">>>>, <<"\\u0556", <<"\\u0586">>>>,
     <<"\\u10a0", <<"\\u2d00">>>>, <<"\\u10a1", <<"\\u2d01">>>>, <<"\\u10a2", <<"\\u2d02">>>>,
     <<"\\u10a3", <<"\\u2d03">>>>, <<"\\u10a4", <<"\\u2d04">>>>, <<"\\u10a5", <<"\\u2d05">>>>,
     <<"\\u10a6", <<"\\u2d06">>>>, <<"\\u10a7", <<"\\u2d07">>>>, <<"\\u10a8", <<"\\u2d08">>>>,
     <<"\\u10a9", <<"\\u2d09">>>>, <<"\\u10aa", <<"\\u2d0a">>>>, <<"\\u10ab", <<"\\u2d0b">>>>,
     <<"\\u10ac", <<"\\u2d0c">>>>, <<"\\u10ad", <<"\\u2d0d">>>>, <<"\\u10ae", <<"\\u2d0e">>>>,
     <<"\\u10af", <<"\\u2d0f">>>>, <<"\\u10b0", <<"\\u2d10">>>>, <<"\\u10b1", <<"\\u2d11">>>>,
     <<"\\u10b2", <<"\\u2d12">>>>, <<"\\u10b3", <<"\\u2d13">>>>, <<"\\u10b4", <<"\\u2d14">>>>,
     <<"\\u10b5", <<"\\u2d15">>>>, <<"\\u10b6", <<"\\u2d16">>>>, <<"\\u10b7", <<"\\u2d17">>>>,
     <<"\\u10b8", <<"\\u2d18">>>>, <<"\\u10b9", <<"\\u2d19">>>>, <<"\\u10ba", <<"\\u2d1a">>>>,
     <<"\\u10bb", <<"\\u2d1b">>>>, <<"\\u10bc", <<"\\u2d1c">>>>, <<"\\u10bd", <<"\\u2d1d">>>>,
     <<"\\u10be", <<"\\u2d1e">>>>, <<"\\u10bf", <<"\\u2d1f">>>>, <<"\\u10c0", <<"\\u2d20">>>>,
     <<"\\u10c1", <<"\\u2d21">>>>, <<"\\u10c2", <<"\\u2d22">>>>, <<"\\u10c3", <<"\\u2d23">>>>,
     <<"\\u10c4", <<"\\u2d24">>>>, <<"\\u10c5", <<"\\u2d25">>>>, <<"\\u10c7", <<"\\u2d27">>>>,
     <<"\\u10cd", <<"\\u2d2d">>>>, <<"\\u13a0", <<"\\uab70">>>>, <<"\\u13a1", <<"\\uab71">>>>,
     <<"\\u13a2", <<"\\uab72">>>>, <<"\\u13a3", <<"\\uab73">>>>, <<"\\u13a4", <<"\\uab74">>>>,
     <<"\\u13a5", <<"\\uab75">>>>, <<"\\u13a6", <<"\\uab76">>>>, <<"\\u13a7", <<"\\uab77">>>>,
     <<"\\u13a8", <<"\\uab78">>>>, <<"\\u13a9", <<"\\uab79">>>>, <<"\\u13aa", <<"\\uab7a">>>>,
     <<"\\u13ab", <<"\\uab7b">>>>, <<"\\u13ac", <<"\\uab7c">>>>, <<"\\u13ad", <<"\\uab7d">>>>,
     <<"\\u13ae", <<"\\uab7e">>>>, <<"\\u13af", <<"\\uab7f">>>>, <<"\\u13b0", <<"\\uab80">>>>,
     <<"\\u13b1", <<"\\uab81">>>>, <<"\\u13b2", <<"\\uab82">>>>, <<"\\u13b3", <<"\\uab83">>>>,
     <<"\\u13b4", <<"\\uab84">>>>, <<"\\u13b5", <<"\\uab85">>>>, <<"\\u13b6", <<"\\uab86">>>>,
     <<"\\u13b7", <<"\\uab87">>>>, <<"\\u13b8", <<"\\uab88">>>>, <<"\\u13b9", <<"\\uab89">>>>,
     <<"\\u13ba", <<"\\uab8a">>>>, <<"\\u13bb", <<"\\uab8b">>>>, <<"\\u13bc", <<"\\uab8c">>>>,
     <<"\\u13bd", <<"\\uab8d">>>>, <<"\\u13be", <<"\\uab8e">>>>, <<"\\u13bf", <<"\\uab8f">>>>,
     <<"\\u13c0", <<"\\uab90">>>>, <<"\\u13c1", <<"\\uab91">>>>, <<"\\u13c2", <<"\\uab92">>>>,
     <<"\\u13c3", <<"\\uab93">>>>, <<"\\u13c4", <<"\\uab94">>>>, <<"\\u13c5", <<"\\uab95">>>>,
     <<"\\u13c6", <<"\\uab96">>>>, <<"\\u13c7", <<"\\uab97">>>>, <<"\\u13c8", <<"\\uab98">>>>,
     <<"\\u13c9", <<"\\uab99">>>>, <<"\\u13ca", <<"\\uab9a">>>>, <<"\\u13cb", <<"\\uab9b">>>>,
     <<"\\u13cc", <<"\\uab9c">>>>, <<"\\u13cd", <<"\\uab9d">>>>, <<"\\u13ce", <<"\\uab9e">>>>,
     <<"\\u13cf", <<"\\uab9f">>>>, <<"\\u13d0", <<"\\uaba0">>>>, <<"\\u13d1", <<"\\uaba1">>>>,
     <<"\\u13d2", <<"\\uaba2">>>>, <<"\\u13d3", <<"\\uaba3">>>>, <<"\\u13d4", <<"\\uaba4">>>>,
     <<"\\u13d5", <<"\\uaba5">>>>, <<"\\u13d6", <<"\\uaba6">>>>, <<"\\u13d7", <<"\\uaba7">>>>,
     <<"\\u13d8", <<"\\uaba8">>>>, <<"\\u13d9", <<"\\uaba9">>>>, <<"\\u13da", <<"\\uabaa">>>>,
     <<"\\u13db", <<"\\uabab">>>>, <<"\\u13dc", <<"\\uabac">>>>, <<"\\u13dd", <<"\\uabad">>>>,
     <<"\\u13de", <<"\\uabae">>>>, <<"\\u13df", <<"\\uabaf">>>>, <<"\\u13e0", <<"\\uabb0">>>>,
     <<"\\u13e1", <<"\\uabb1">>>>, <<"\\u13e2", <<"\\uabb2">>>>, <<"\\u13e3", <<"\\uabb3">>>>,
     <<"\\u13e4", <<"\\uabb4">>>>, <<"\\u13e5", <<"\\uabb5">>>>, <<"\\u13e6", <<"\\uabb6">>>>,
     <<"\\u13e7", <<"\\uabb7">>>>, <<"\\u13e8", <<"\\uabb8">>>>, <<"\\u13e9", <<"\\uabb9">>>>,
     <<"\\u13ea", <<"\\uabba">>>>, <<"\\u13eb", <<"\\uabbb">>>>, <<"\\u13ec", <<"\\uabbc">>>>,
     <<"\\u13ed", <<"\\uabbd">>>>, <<"\\u13ee", <<"\\uabbe">>>>, <<"\\u13ef", <<"\\uabbf">>>>,
     <<"\\u13f0", <<"\\u13f8">>>>, <<"\\u13f1", <<"\\u13f9">>>>, <<"\\u13f2", <<"\\u13fa">>>>,
     <<"\\u13f3", <<"\\u13fb">>>>, <<"\\u13f4", <<"\\u13fc">>>>, <<"\\u13f5", <<"\\u13fd">>>>,
     <<"\\u1c90", <<"\\u10d0">>>>, <<"\\u1c91", <<"\\u10d1">>>>, <<"\\u1c92", <<"\\u10d2">>>>,
     <<"\\u1c93", <<"\\u10d3">>>>, <<"\\u1c94", <<"\\u10d4">>>>, <<"\\u1c95", <<"\\u10d5">>>>,
     <<"\\u1c96", <<"\\u10d6">>>>, <<"\\u1c97", <<"\\u10d7">>>>, <<"\\u1c98", <<"\\u10d8">>>>,
     <<"\\u1c99", <<"\\u10d9">>>>, <<"\\u1c9a", <<"\\u10da">>>>, <<"\\u1c9b", <<"\\u10db">>>>,
     <<"\\u1c9c", <<"\\u10dc">>>>, <<"\\u1c9d", <<"\\u10dd">>>>, <<"\\u1c9e", <<"\\u10de">>>>,
     <<"\\u1c9f", <<"\\u10df">>>>, <<"\\u1ca0", <<"\\u10e0">>>>, <<"\\u1ca1", <<"\\u10e1">>>>,
     <<"\\u1ca2", <<"\\u10e2">>>>, <<"\\u1ca3", <<"\\u10e3">>>>, <<"\\u1ca4", <<"\\u10e4">>>>,
     <<"\\u1ca5", <<"\\u10e5">>>>, <<"\\u1ca6", <<"\\u10e6">>>>, <<"\\u1ca7", <<"\\u10e7">>>>,
     <<"\\u1ca8", <<"\\u10e8">>>>, <<"\\u1ca9", <<"\\u10e9">>>>, <<"\\u1caa", <<"\\u10ea">>>>,
     <<"\\u1cab", <<"\\u10eb">>>>, <<"\\u1cac", <<"\\u10ec">>>>, <<"\\u1cad", <<"\\u10ed">>>>,
     <<"\\u1cae", <<"\\u10ee">>>>, <<"\\u1caf", <<"\\u10ef">>>>, <<"\\u1cb0", <<"\\u10f0">>>>,
     <<"\\u1cb1", <<"\\u10f1">>>>, <<"\\u1cb2", <<"\\u10f2">>>>, <<"\\u1cb3", <<"\\u10f3">>>>,
     <<"\\u1cb4", <<"\\u10f4">>>>, <<"\\u1cb5", <<"\\u10f5">>>>, <<"\\u1cb6", <<"\\u10f6">>>>,
     <<"\\u1cb7", <<"\\u10f7">>>>, <<"\\u1cb8", <<"\\u10f8">>>>, <<"\\u1cb9", <<"\\u10f9">>>>,
     <<"\\u1cba", <<"\\u10fa">>>>, <<"\\u1cbd", <<"\\u10fd">>>>, <<"\\u1cbe", <<"\\u10fe">>>>,
     <<"\\u1cbf", <<"\\u10ff">>>>, <<"\\u1e00", <<"\\u1e01">>>>, <<"\\u1e02", <<"\\u1e03">>>>,
     <<"\\u1e04", <<"\\u1e05">>>>, <<"\\u1e06", <<"\\u1e07">>>>, <<"\\u1e08", <<"\\u1e09">>>>,
     <<"\\u1e0a", <<"\\u1e0b">>>>, <<"\\u1e0c", <<"\\u1e0d">>>>, <<"\\u1e0e", <<"\\u1e0f">>>>,
     <<"\\u1e10", <<"\\u1e11">>>>, <<"\\u1e12", <<"\\u1e13">>>>, <<"\\u1e14", <<"\\u1e15">>>>,
     <<"\\u1e16", <<"\\u1e17">>>>, <<"\\u1e18", <<"\\u1e19">>>>, <<"\\u1e1a", <<"\\u1e1b">>>>,
     <<"\\u1e1c", <<"\\u1e1d">>>>, <<"\\u1e1e", <<"\\u1e1f">>>>, <<"\\u1e20", <<"\\u1e21">>>>,
     <<"\\u1e22", <<"\\u1e23">>>>, <<"\\u1e24", <<"\\u1e25">>>>, <<"\\u1e26", <<"\\u1e27">>>>,
     <<"\\u1e28", <<"\\u1e29">>>>, <<"\\u1e2a", <<"\\u1e2b">>>>, <<"\\u1e2c", <<"\\u1e2d">>>>,
     <<"\\u1e2e", <<"\\u1e2f">>>>, <<"\\u1e30", <<"\\u1e31">>>>, <<"\\u1e32", <<"\\u1e33">>>>,
     <<"\\u1e34", <<"\\u1e35">>>>, <<"\\u1e36", <<"\\u1e37">>>>, <<"\\u1e38", <<"\\u1e39">>>>,
     <<"\\u1e3a", <<"\\u1e3b">>>>, <<"\\u1e3c", <<"\\u1e3d">>>>, <<"\\u1e3e", <<"\\u1e3f">>>>,
     <<"\\u1e40", <<"\\u1e41">>>>, <<"\\u1e42", <<"\\u1e43">>>>, <<"\\u1e44", <<"\\u1e45">>>>,
     <<"\\u1e46", <<"\\u1e47">>>>, <<"\\u1e48", <<"\\u1e49">>>>, <<"\\u1e4a", <<"\\u1e4b">>>>,
     <<"\\u1e4c", <<"\\u1e4d">>>>, <<"\\u1e4e", <<"\\u1e4f">>>>, <<"\\u1e50", <<"\\u1e51">>>>,
     <<"\\u1e52", <<"\\u1e53">>>>, <<"\\u1e54", <<"\\u1e55">>>>, <<"\\u1e56", <<"\\u1e57">>>>,
     <<"\\u1e58", <<"\\u1e59">>>>, <<"\\u1e5a", <<"\\u1e5b">>>>, <<"\\u1e5c", <<"\\u1e5d">>>>,
     <<"\\u1e5e", <<"\\u1e5f">>>>, <<"\\u1e60", <<"\\u1e61">>>>, <<"\\u1e62", <<"\\u1e63">>>>,
     <<"\\u1e64", <<"\\u1e65">>>>, <<"\\u1e66", <<"\\u1e67">>>>, <<"\\u1e68", <<"\\u1e69">>>>,
     <<"\\u1e6a", <<"\\u1e6b">>>>, <<"\\u1e6c", <<"\\u1e6d">>>>, <<"\\u1e6e", <<"\\u1e6f">>>>,
     <<"\\u1e70", <<"\\u1e71">>>>, <<"\\u1e72", <<"\\u1e73">>>>, <<"\\u1e74", <<"\\u1e75">>>>,
     <<"\\u1e76", <<"\\u1e77">>>>, <<"\\u1e78", <<"\\u1e79">>>>, <<"\\u1e7a", <<"\\u1e7b">>>>,
     <<"\\u1e7c", <<"\\u1e7d">>>>, <<"\\u1e7e", <<"\\u1e7f">>>>, <<"\\u1e80", <<"\\u1e81">>>>,
     <<"\\u1e82", <<"\\u1e83">>>>, <<"\\u1e84", <<"\\u1e85">>>>, <<"\\u1e86", <<"\\u1e87">>>>,
     <<"\\u1e88", <<"\\u1e89">>>>, <<"\\u1e8a", <<"\\u1e8b">>>>, <<"\\u1e8c", <<"\\u1e8d">>>>,
     <<"\\u1e8e", <<"\\u1e8f">>>>, <<"\\u1e90", <<"\\u1e91">>>>, <<"\\u1e92", <<"\\u1e93">>>>,
     <<"\\u1e94", <<"\\u1e95">>>>, <<"\\u1e9e", <<"\\u00df">>>>, <<"\\u1ea0", <<"\\u1ea1">>>>,
     <<"\\u1ea2", <<"\\u1ea3">>>>, <<"\\u1ea4", <<"\\u1ea5">>>>, <<"\\u1ea6", <<"\\u1ea7">>>>,
     <<"\\u1ea8", <<"\\u1ea9">>>>, <<"\\u1eaa", <<"\\u1eab">>>>, <<"\\u1eac", <<"\\u1ead">>>>,
     <<"\\u1eae", <<"\\u1eaf">>>>, <<"\\u1eb0", <<"\\u1eb1">>>>, <<"\\u1eb2", <<"\\u1eb3">>>>,
     <<"\\u1eb4", <<"\\u1eb5">>>>, <<"\\u1eb6", <<"\\u1eb7">>>>, <<"\\u1eb8", <<"\\u1eb9">>>>,
     <<"\\u1eba", <<"\\u1ebb">>>>, <<"\\u1ebc", <<"\\u1ebd">>>>, <<"\\u1ebe", <<"\\u1ebf">>>>,
     <<"\\u1ec0", <<"\\u1ec1">>>>, <<"\\u1ec2", <<"\\u1ec3">>>>, <<"\\u1ec4", <<"\\u1ec5">>>>,
     <<"\\u1ec6", <<"\\u1ec7">>>>, <<"\\u1ec8", <<"\\u1ec9">>>>, <<"\\u1eca", <<"\\u1ecb">>>>,
     <<"\\u1ecc", <<"\\u1ecd">>>>, <<"\\u1ece", <<"\\u1ecf">>>>, <<"\\u1ed0", <<"\\u1ed1">>>>,
     <<"\\u1ed2", <<"\\u1ed3">>>>, <<"\\u1ed4", <<"\\u1ed5">>>>, <<"\\u1ed6", <<"\\u1ed7">>>>,
     <<"\\u1ed8", <<"\\u1ed9">>>>, <<"\\u1eda", <<"\\u1edb">>>>, <<"\\u1edc", <<"\\u1edd">>>>,
     <<"\\u1ede", <<"\\u1edf">>>>, <<"\\u1ee0", <<"\\u1ee1">>>>, <<"\\u1ee2", <<"\\u1ee3">>>>,
     <<"\\u1ee4", <<"\\u1ee5">>>>, <<"\\u1ee6", <<"\\u1ee7">>>>, <<"\\u1ee8", <<"\\u1ee9">>>>,
     <<"\\u1eea", <<"\\u1eeb">>>>, <<"\\u1eec", <<"\\u1eed">>>>, <<"\\u1eee", <<"\\u1eef">>>>,
     <<"\\u1ef0", <<"\\u1ef1">>>>, <<"\\u1ef2", <<"\\u1ef3">>>>, <<"\\u1ef4", <<"\\u1ef5">>>>,
     <<"\\u1ef6", <<"\\u1ef7">>>>, <<"\\u1ef8", <<"\\u1ef9">>>>, <<"\\u1efa", <<"\\u1efb">>>>,
     <<"\\u1efc", <<"\\u1efd">>>>, <<"\\u1efe", <<"\\u1eff">>>>, <<"\\u1f08", <<"\\u1f00">>>>,
     <<"\\u1f09", <<"\\u1f01">>>>, <<"\\u1f0a", <<"\\u1f02">>>>, <<"\\u1f0b", <<"\\u1f03">>>>,
     <<"\\u1f0c", <<"\\u1f04">>>>, <<"\\u1f0d", <<"\\u1f05">>>>, <<"\\u1f0e", <<"\\u1f06">>>>,
     <<"\\u1f0f", <<"\\u1f07">>>>, <<"\\u1f18", <<"\\u1f10">>>>, <<"\\u1f19", <<"\\u1f11">>>>,
     <<"\\u1f1a", <<"\\u1f12">>>>, <<"\\u1f1b", <<"\\u1f13">>>>, <<"\\u1f1c", <<"\\u1f14">>>>,
     <<"\\u1f1d", <<"\\u1f15">>>>, <<"\\u1f28", <<"\\u1f20">>>>, <<"\\u1f29", <<"\\u1f21">>>>,
     <<"\\u1f2a", <<"\\u1f22">>>>, <<"\\u1f2b", <<"\\u1f23">>>>, <<"\\u1f2c", <<"\\u1f24">>>>,
     <<"\\u1f2d", <<"\\u1f25">>>>, <<"\\u1f2e", <<"\\u1f26">>>>, <<"\\u1f2f", <<"\\u1f27">>>>,
     <<"\\u1f38", <<"\\u1f30">>>>, <<"\\u1f39", <<"\\u1f31">>>>, <<"\\u1f3a", <<"\\u1f32">>>>,
     <<"\\u1f3b", <<"\\u1f33">>>>, <<"\\u1f3c", <<"\\u1f34">>>>, <<"\\u1f3d", <<"\\u1f35">>>>,
     <<"\\u1f3e", <<"\\u1f36">>>>, <<"\\u1f3f", <<"\\u1f37">>>>, <<"\\u1f48", <<"\\u1f40">>>>,
     <<"\\u1f49", <<"\\u1f41">>>>, <<"\\u1f4a", <<"\\u1f42">>>>, <<"\\u1f4b", <<"\\u1f43">>>>,
     <<"\\u1f4c", <<"\\u1f44">>>>, <<"\\u1f4d", <<"\\u1f45">>>>, <<"\\u1f59", <<"\\u1f51">>>>,
     <<"\\u1f5b", <<"\\u1f53">>>>, <<"\\u1f5d", <<"\\u1f55">>>>, <<"\\u1f5f", <<"\\u1f57">>>>,
     <<"\\u1f68", <<"\\u1f60">>>>, <<"\\u1f69", <<"\\u1f61">>>>, <<"\\u1f6a", <<"\\u1f62">>>>,
     <<"\\u1f6b", <<"\\u1f63">>>>, <<"\\u1f6c", <<"\\u1f64">>>>, <<"\\u1f6d", <<"\\u1f65">>>>,
     <<"\\u1f6e", <<"\\u1f66">>>>, <<"\\u1f6f", <<"\\u1f67">>>>, <<"\\u1f88", <<"\\u1f80">>>>,
     <<"\\u1f89", <<"\\u1f81">>>>, <<"\\u1f8a", <<"\\u1f82">>>>, <<"\\u1f8b", <<"\\u1f83">>>>,
     <<"\\u1f8c", <<"\\u1f84">>>>, <<"\\u1f8d", <<"\\u1f85">>>>, <<"\\u1f8e", <<"\\u1f86">>>>,
     <<"\\u1f8f", <<"\\u1f87">>>>, <<"\\u1f98", <<"\\u1f90">>>>, <<"\\u1f99", <<"\\u1f91">>>>,
     <<"\\u1f9a", <<"\\u1f92">>>>, <<"\\u1f9b", <<"\\u1f93">>>>, <<"\\u1f9c", <<"\\u1f94">>>>,
     <<"\\u1f9d", <<"\\u1f95">>>>, <<"\\u1f9e", <<"\\u1f96">>>>, <<"\\u1f9f", <<"\\u1f97">>>>,
     <<"\\u1fa8", <<"\\u1fa0">>>>, <<"\\u1fa9", <<"\\u1fa1">>>>, <<"\\u1faa", <<"\\u1fa2">>>>,
     <<"\\u1fab", <<"\\u1fa3">>>>, <<"\\u1fac", <<"\\u1fa4">>>>, <<"\\u1fad", <<"\\u1fa5">>>>,
     <<"\\u1fae", <<"\\u1fa6">>>>, <<"\\u1faf", <<"\\u1fa7">>>>, <<"\\u1fb8", <<"\\u1fb0">>>>,
     <<"\\u1fb9", <<"\\u1fb1">>>>, <<"\\u1fba", <<"\\u1f70">>>>, <<"\\u1fbb", <<"\\u1f71">>>>,
     <<"\\u1fbc", <<"\\u1fb3">>>>, <<"\\u1fc8", <<"\\u1f72">>>>, <<"\\u1fc9", <<"\\u1f73">>>>,
     <<"\\u1fca", <<"\\u1f74">>>>, <<"\\u1fcb", <<"\\u1f75">>>>, <<"\\u1fcc", <<"\\u1fc3">>>>,
     <<"\\u1fd8", <<"\\u1fd0">>>>, <<"\\u1fd9", <<"\\u1fd1">>>>, <<"\\u1fda", <<"\\u1f76">>>>,
     <<"\\u1fdb", <<"\\u1f77">>>>, <<"\\u1fe8", <<"\\u1fe0">>>>, <<"\\u1fe9", <<"\\u1fe1">>>>,
     <<"\\u1fea", <<"\\u1f7a">>>>, <<"\\u1feb", <<"\\u1f7b">>>>, <<"\\u1fec", <<"\\u1fe5">>>>,
     <<"\\u1ff8", <<"\\u1f78">>>>, <<"\\u1ff9", <<"\\u1f79">>>>, <<"\\u1ffa", <<"\\u1f7c">>>>,
     <<"\\u1ffb", <<"\\u1f7d">>>>, <<"\\u1ffc", <<"\\u1ff3">>>>, <<"\\u2126", <<"\\u03c9">>>>,
     <<"\\u212a", <<"k">>>>, <<"\\u212b", <<"\\u00e5">>>>, <<"\\u2132", <<"\\u214e">>>>,
     <<"\\u2160", <<"\\u2170">>>>, <<"\\u2161", <<"\\u2171">>>>, <<"\\u2162", <<"\\u2172">>>>,
     <<"\\u2163", <<"\\u2173">>>>, <<"\\u2164", <<"\\u2174">>>>, <<"\\u2165", <<"\\u2175">>>>,
     <<"\\u2166", <<"\\u2176">>>>, <<"\\u2167", <<"\\u2177">>>>, <<"\\u2168", <<"\\u2178">>>>,
     <<"\\u2169", <<"\\u2179">>>>, <<"\\u216a", <<"\\u217a">>>>, <<"\\u216b", <<"\\u217b">>>>,
     <<"\\u216c", <<"\\u217c">>>>, <<"\\u216d", <<"\\u217d">>>>, <<"\\u216e", <<"\\u217e">>>>,
     <<"\\u216f", <<"\\u217f">>>>, <<"\\u2183", <<"\\u2184">>>>, <<"\\u24b6", <<"\\u24d0">>>>,
     <<"\\u24b7", <<"\\u24d1">>>>, <<"\\u24b8", <<"\\u24d2">>>>, <<"\\u24b9", <<"\\u24d3">>>>,
     <<"\\u24ba", <<"\\u24d4">>>>, <<"\\u24bb", <<"\\u24d5">>>>, <<"\\u24bc", <<"\\u24d6">>>>,
     <<"\\u24bd", <<"\\u24d7">>>>, <<"\\u24be", <<"\\u24d8">>>>, <<"\\u24bf", <<"\\u24d9">>>>,
     <<"\\u24c0", <<"\\u24da">>>>, <<"\\u24c1", <<"\\u24db">>>>, <<"\\u24c2", <<"\\u24dc">>>>,
     <<"\\u24c3", <<"\\u24dd">>>>, <<"\\u24c4", <<"\\u24de">>>>, <<"\\u24c5", <<"\\u24df">>>>,
     <<"\\u24c6", <<"\\u24e0">>>>, <<"\\u24c7", <<"\\u24e1">>>>, <<"\\u24c8", <<"\\u24e2">>>>,
     <<"\\u24c9", <<"\\u24e3">>>>, <<"\\u24ca", <<"\\u24e4">>>>, <<"\\u24cb", <<"\\u24e5">>>>,
     <<"\\u24cc", <<"\\u24e6">>>>, <<"\\u24cd", <<"\\u24e7">>>>, <<"\\u24ce", <<"\\u24e8">>>>,
     <<"\\u24cf", <<"\\u24e9">>>>, <<"\\u2c00", <<"\\u2c30">>>>, <<"\\u2c01", <<"\\u2c31">>>>,
     <<"\\u2c02", <<"\\u2c32">>>>, <<"\\u2c03", <<"\\u2c33">>>>, <<"\\u2c04", <<"\\u2c34">>>>,
     <<"\\u2c05", <<"\\u2c35">>>>, <<"\\u2c06", <<"\\u2c36">>>>, <<"\\u2c07", <<"\\u2c37">>>>,
     <<"\\u2c08", <<"\\u2c38">>>>, <<"\\u2c09", <<"\\u2c39">>>>, <<"\\u2c0a", <<"\\u2c3a">>>>,
     <<"\\u2c0b", <<"\\u2c3b">>>>, <<"\\u2c0c", <<"\\u2c3c">>>>, <<"\\u2c0d", <<"\\u2c3d">>>>,
     <<"\\u2c0e", <<"\\u2c3e">>>>, <<"\\u2c0f", <<"\\u2c3f">>>>, <<"\\u2c10", <<"\\u2c40">>>>,
     <<"\\u2c11", <<"\\u2c41">>>>, <<"\\u2c12", <<"\\u2c42">>>>, <<"\\u2c13", <<"\\u2c43">>>>,
     <<"\\u2c14", <<"\\u2c44">>>>, <<"\\u2c15", <<"\\u2c45">>>>, <<"\\u2c16", <<"\\u2c46">>>>,
     <<"\\u2c17", <<"\\u2c47">>>>, <<"\\u2c18", <<"\\u2c48">>>>, <<"\\u2c19", <<"\\u2c49">>>>,
     <<"\\u2c1a", <<"\\u2c4a">>>>, <<"\\u2c1b", <<"\\u2c4b">>>>, <<"\\u2c1c", <<"\\u2c4c">>>>,
     <<"\\u2c1d", <<"\\u2c4d">>>>, <<"\\u2c1e", <<"\\u2c4e">>>>, <<"\\u2c1f", <<"\\u2c4f">>>>,
     <<"\\u2c20", <<"\\u2c50">>>>, <<"\\u2c21", <<"\\u2c51">>>>, <<"\\u2c22", <<"\\u2c52">>>>,
     <<"\\u2c23", <<"\\u2c53">>>>, <<"\\u2c24", <<"\\u2c54">>>>, <<"\\u2c25", <<"\\u2c55">>>>,
     <<"\\u2c26", <<"\\u2c56">>>>, <<"\\u2c27", <<"\\u2c57">>>>, <<"\\u2c28", <<"\\u2c58">>>>,
     <<"\\u2c29", <<"\\u2c59">>>>, <<"\\u2c2a", <<"\\u2c5a">>>>, <<"\\u2c2b", <<"\\u2c5b">>>>,
     <<"\\u2c2c", <<"\\u2c5c">>>>, <<"\\u2c2d", <<"\\u2c5d">>>>, <<"\\u2c2e", <<"\\u2c5e">>>>,
     <<"\\u2c2f", <<"\\u2c5f">>>>, <<"\\u2c60", <<"\\u2c61">>>>, <<"\\u2c62", <<"\\u026b">>>>,
     <<"\\u2c63", <<"\\u1d7d">>>>, <<"\\u2c64", <<"\\u027d">>>>, <<"\\u2c67", <<"\\u2c68">>>>,
     <<"\\u2c69", <<"\\u2c6a">>>>, <<"\\u2c6b", <<"\\u2c6c">>>>, <<"\\u2c6d", <<"\\u0251">>>>,
     <<"\\u2c6e", <<"\\u0271">>>>, <<"\\u2c6f", <<"\\u0250">>>>, <<"\\u2c70", <<"\\u0252">>>>,
     <<"\\u2c72", <<"\\u2c73">>>>, <<"\\u2c75", <<"\\u2c76">>>>, <<"\\u2c7e", <<"\\u023f">>>>,
     <<"\\u2c7f", <<"\\u0240">>>>, <<"\\u2c80", <<"\\u2c81">>>>, <<"\\u2c82", <<"\\u2c83">>>>,
     <<"\\u2c84", <<"\\u2c85">>>>, <<"\\u2c86", <<"\\u2c87">>>>, <<"\\u2c88", <<"\\u2c89">>>>,
     <<"\\u2c8a", <<"\\u2c8b">>>>, <<"\\u2c8c", <<"\\u2c8d">>>>, <<"\\u2c8e", <<"\\u2c8f">>>>,
     <<"\\u2c90", <<"\\u2c91">>>>, <<"\\u2c92", <<"\\u2c93">>>>, <<"\\u2c94", <<"\\u2c95">>>>,
     <<"\\u2c96", <<"\\u2c97">>>>, <<"\\u2c98", <<"\\u2c99">>>>, <<"\\u2c9a", <<"\\u2c9b">>>>,
     <<"\\u2c9c", <<"\\u2c9d">>>>, <<"\\u2c9e", <<"\\u2c9f">>>>, <<"\\u2ca0", <<"\\u2ca1">>>>,
     <<"\\u2ca2", <<"\\u2ca3">>>>, <<"\\u2ca4", <<"\\u2ca5">>>>, <<"\\u2ca6", <<"\\u2ca7">>>>,
     <<"\\u2ca8", <<"\\u2ca9">>>>, <<"\\u2caa", <<"\\u2cab">>>>, <<"\\u2cac", <<"\\u2cad">>>>,
     <<"\\u2cae", <<"\\u2caf">>>>, <<"\\u2cb0", <<"\\u2cb1">>>>, <<"\\u2cb2", <<"\\u2cb3">>>>,
     <<"\\u2cb4", <<"\\u2cb5">>>>, <<"\\u2cb6", <<"\\u2cb7">>>>, <<"\\u2cb8", <<"\\u2cb9">>>>,
     <<"\\u2cba", <<"\\u2cbb">>>>, <<"\\u2cbc", <<"\\u2cbd">>>>, <<"\\u2cbe", <<"\\u2cbf">>>>,
     <<"\\u2cc0", <<"\\u2cc1">>>>, <<"\\u2cc2", <<"\\u2cc3">>>>, <<"\\u2cc4", <<"\\u2cc5">>>>,
     <<"\\u2cc6", <<"\\u2cc7">>>>, <<"\\u2cc8", <<"\\u2cc9">>>>, <<"\\u2cca", <<"\\u2ccb">>>>,
     <<"\\u2ccc", <<"\\u2ccd">>>>, <<"\\u2cce", <<"\\u2ccf">>>>, <<"\\u2cd0", <<"\\u2cd1">>>>,
     <<"\\u2cd2", <<"\\u2cd3">>>>, <<"\\u2cd4", <<"\\u2cd5">>>>, <<"\\u2cd6", <<"\\u2cd7">>>>,
     <<"\\u2cd8", <<"\\u2cd9">>>>, <<"\\u2cda", <<"\\u2cdb">>>>, <<"\\u2cdc", <<"\\u2cdd">>>>,
     <<"\\u2cde", <<"\\u2cdf">>>>, <<"\\u2ce0", <<"\\u2ce1">>>>, <<"\\u2ce2", <<"\\u2ce3">>>>,
     <<"\\u2ceb", <<"\\u2cec">>>>, <<"\\u2ced", <<"\\u2cee">>>>, <<"\\u2cf2", <<"\\u2cf3">>>>,
     <<"\\ua640", <<"\\ua641">>>>, <<"\\ua642", <<"\\ua643">>>>, <<"\\ua644", <<"\\ua645">>>>,
     <<"\\ua646", <<"\\ua647">>>>, <<"\\ua648", <<"\\ua649">>>>, <<"\\ua64a", <<"\\ua64b">>>>,
     <<"\\ua64c", <<"\\ua64d">>>>, <<"\\ua64e", <<"\\ua64f">>>>, <<"\\ua650", <<"\\ua651">>>>,
     <<"\\ua652", <<"\\ua653">>>>, <<"\\ua654", <<"\\ua655">>>>, <<"\\ua656", <<"\\ua657">>>>,
     <<"\\ua658", <<"\\ua659">>>>, <<"\\ua65a", <<"\\ua65b">>>>, <<"\\ua65c", <<"\\ua65d">>>>,
     <<"\\ua65e", <<"\\ua65f">>>>, <<"\\ua660", <<"\\ua661">>>>, <<"\\ua662", <<"\\ua663">>>>,
     <<"\\ua664", <<"\\ua665">>>>, <<"\\ua666", <<"\\ua667">>>>, <<"\\ua668", <<"\\ua669">>>>,
     <<"\\ua66a", <<"\\ua66b">>>>, <<"\\ua66c", <<"\\ua66d">>>>, <<"\\ua680", <<"\\ua681">>>>,
     <<"\\ua682", <<"\\ua683">>>>, <<"\\ua684", <<"\\ua685">>>>, <<"\\ua686", <<"\\ua687">>>>,
     <<"\\ua688", <<"\\ua689">>>>, <<"\\ua68a", <<"\\ua68b">>>>, <<"\\ua68c", <<"\\ua68d">>>>,
     <<"\\ua68e", <<"\\ua68f">>>>, <<"\\ua690", <<"\\ua691">>>>, <<"\\ua692", <<"\\ua693">>>>,
     <<"\\ua694", <<"\\ua695">>>>, <<"\\ua696", <<"\\ua697">>>>, <<"\\ua698", <<"\\ua699">>>>,
     <<"\\ua69a", <<"\\ua69b">>>>, <<"\\ua722", <<"\\ua723">>>>, <<"\\ua724", <<"\\ua725">>>>,
     <<"\\ua726", <<"\\ua727">>>>, <<"\\ua728", <<"\\ua729">>>>, <<"\\ua72a", <<"\\ua72b">>>>,
     <<"\\ua72c", <<"\\ua72d">>>>, <<"\\ua72e", <<"\\ua72f">>>>, <<"\\ua732", <<"\\ua733">>>>,
     <<"\\ua734", <<"\\ua735">>>>, <<"\\ua736", <<"\\ua737">>>>, <<"\\ua738", <<"\\ua739">>>>,
     <<"\\ua73a", <<"\\ua73b">>>>, <<"\\ua73c", <<"\\ua73d">>>>, <<"\\ua73e", <<"\\ua73f">>>>,
     <<"\\ua740", <<"\\ua741">>>>, <<"\\ua742", <<"\\ua743">>>>, <<"\\ua744", <<"\\ua745">>>>,
     <<"\\ua746", <<"\\ua747">>>>, <<"\\ua748", <<"\\ua749">>>>, <<"\\ua74a", <<"\\ua74b">>>>,
     <<"\\ua74c", <<"\\ua74d">>>>, <<"\\ua74e", <<"\\ua74f">>>>, <<"\\ua750", <<"\\ua751">>>>,
     <<"\\ua752", <<"\\ua753">>>>, <<"\\ua754", <<"\\ua755">>>>, <<"\\ua756", <<"\\ua757">>>>,
     <<"\\ua758", <<"\\ua759">>>>, <<"\\ua75a", <<"\\ua75b">>>>, <<"\\ua75c", <<"\\ua75d">>>>,
     <<"\\ua75e", <<"\\ua75f">>>>, <<"\\ua760", <<"\\ua761">>>>, <<"\\ua762", <<"\\ua763">>>>,
     <<"\\ua764", <<"\\ua765">>>>, <<"\\ua766", <<"\\ua767">>>>, <<"\\ua768", <<"\\ua769">>>>,
     <<"\\ua76a", <<"\\ua76b">>>>, <<"\\ua76c", <<"\\ua76d">>>>, <<"\\ua76e", <<"\\ua76f">>>>,
     <<"\\ua779", <<"\\ua77a">>>>, <<"\\ua77b", <<"\\ua77c">>>>, <<"\\ua77d", <<"\\u1d79">>>>,
     <<"\\ua77e", <<"\\ua77f">>>>, <<"\\ua780", <<"\\ua781">>>>, <<"\\ua782", <<"\\ua783">>>>,
     <<"\\ua784", <<"\\ua785">>>>, <<"\\ua786", <<"\\ua787">>>>, <<"\\ua78b", <<"\\ua78c">>>>,
     <<"\\ua78d", <<"\\u0265">>>>, <<"\\ua790", <<"\\ua791">>>>, <<"\\ua792", <<"\\ua793">>>>,
     <<"\\ua796", <<"\\ua797">>>>, <<"\\ua798", <<"\\ua799">>>>, <<"\\ua79a", <<"\\ua79b">>>>,
     <<"\\ua79c", <<"\\ua79d">>>>, <<"\\ua79e", <<"\\ua79f">>>>, <<"\\ua7a0", <<"\\ua7a1">>>>,
     <<"\\ua7a2", <<"\\ua7a3">>>>, <<"\\ua7a4", <<"\\ua7a5">>>>, <<"\\ua7a6", <<"\\ua7a7">>>>,
     <<"\\ua7a8", <<"\\ua7a9">>>>, <<"\\ua7aa", <<"\\u0266">>>>, <<"\\ua7ab", <<"\\u025c">>>>,
     <<"\\ua7ac", <<"\\u0261">>>>, <<"\\ua7ad", <<"\\u026c">>>>, <<"\\ua7ae", <<"\\u026a">>>>,
     <<"\\ua7b0", <<"\\u029e">>>>, <<"\\ua7b1", <<"\\u0287">>>>, <<"\\ua7b2", <<"\\u029d">>>>,
     <<"\\ua7b3", <<"\\uab53">>>>, <<"\\ua7b4", <<"\\ua7b5">>>>, <<"\\ua7b6", <<"\\ua7b7">>>>,
     <<"\\ua7b8", <<"\\ua7b9">>>>, <<"\\ua7ba", <<"\\ua7bb">>>>, <<"\\ua7bc", <<"\\ua7bd">>>>,
     <<"\\ua7be", <<"\\ua7bf">>>>, <<"\\ua7c0", <<"\\ua7c1">>>>, <<"\\ua7c2", <<"\\ua7c3">>>>,
     <<"\\ua7c4", <<"\\ua794">>>>, <<"\\ua7c5", <<"\\u0282">>>>, <<"\\ua7c6", <<"\\u1d8e">>>>,
     <<"\\ua7c7", <<"\\ua7c8">>>>, <<"\\ua7c9", <<"\\ua7ca">>>>, <<"\\ua7d0", <<"\\ua7d1">>>>,
     <<"\\ua7d6", <<"\\ua7d7">>>>, <<"\\ua7d8", <<"\\ua7d9">>>>, <<"\\ua7f5", <<"\\ua7f6">>>>,
     <<"\\uff21", <<"\\uff41">>>>, <<"\\uff22", <<"\\uff42">>>>, <<"\\uff23", <<"\\uff43">>>>,
     <<"\\uff24", <<"\\uff44">>>>, <<"\\uff25", <<"\\uff45">>>>, <<"\\uff26", <<"\\uff46">>>>,
     <<"\\uff27", <<"\\uff47">>>>, <<"\\uff28", <<"\\uff48">>>>, <<"\\uff29", <<"\\uff49">>>>,
     <<"\\uff2a", <<"\\uff4a">>>>, <<"\\uff2b", <<"\\uff4b">>>>, <<"\\uff2c", <<"\\uff4c">>>>,
     <<"\\uff2d", <<"\\uff4d">>>>, <<"\\uff2e", <<"\\uff4e">>>>, <<"\\uff2f", <<"\\uff4f">>>>,
     <<"\\uff30", <<"\\uff50">>>>, <<"\\uff31", <<"\\uff51">>>>, <<"\\uff32", <<"\\uff52">>>>,
     <<"\\uff33", <<"\\uff53">>>>, <<"\\uff34", <<"\\uff54">>>>, <<"\\uff35", <<"\\uff55">>>>,
     <<"\\uff36", <<"\\uff56">>>>, <<"\\uff37", <<"\\uff57">>>>, <<"\\uff38", <<"\\uff58">>>>,
     <<"\\uff39", <<"\\uff59">>>>, <<"\\uff3a", <<"\\uff5a">>>>,
     <<"\\ud801\\udc00", <<"\\ud801\\udc28">>>>, <<"\\ud801\\udc01", <<"\\ud801\\udc29">>>>,
     <<"\\ud801\\udc02", <<"\\ud801\\udc2a">>>>, <<"\\ud801\\udc03", <<"\\ud801\\udc2b">>>>,
     <<"\\ud801\\udc04", <<"\\ud801\\udc2c">>>>, <<"\\ud801\\udc05", <<"\\ud801\\udc2d">>>>,
     <<"\\ud801\\udc06", <<"\\ud801\\udc2e">>>>, <<"\\ud801\\udc07", <<"\\ud801\\udc2f">>>>,
     <<"\\ud801\\udc08", <<"\\ud801\\udc30">>>>, <<"\\ud801\\udc09", <<"\\ud801\\udc31">>>>,
     <<"\\ud801\\udc0a", <<"\\ud801\\udc32">>>>, <<"\\ud801\\udc0b", <<"\\ud801\\udc33">>>>,
     <<"\\ud801\\udc0c", <<"\\ud801\\udc34">>>>, <<"\\ud801\\udc0d", <<"\\ud801\\udc35">>>>,
     <<"\\ud801\\udc0e", <<"\\ud801\\udc36">>>>, <<"\\ud801\\udc0f", <<"\\ud801\\udc37">>>>,
     <<"\\ud801\\udc10", <<"\\ud801\\udc38">>>>, <<"\\ud801\\udc11", <<"\\ud801\\udc39">>>>,
     <<"\\ud801\\udc12", <<"\\ud801\\udc3a">>>>, <<"\\ud801\\udc13", <<"\\ud801\\udc3b">>>>,
     <<"\\ud801\\udc14", <<"\\ud801\\udc3c">>>>, <<"\\ud801\\udc15", <<"\\ud801\\udc3d">>>>,
     <<"\\ud801\\udc16", <<"\\ud801\\udc3e">>>>, <<"\\ud801\\udc17", <<"\\ud801\\udc3f">>>>,
     <<"\\ud801\\udc18", <<"\\ud801\\udc40">>>>, <<"\\ud801\\udc19", <<"\\ud801\\udc41">>>>,
     <<"\\ud801\\udc1a", <<"\\ud801\\udc42">>>>, <<"\\ud801\\udc1b", <<"\\ud801\\udc43">>>>,
     <<"\\ud801\\udc1c", <<"\\ud801\\udc44">>>>, <<"\\ud801\\udc1d", <<"\\ud801\\udc45">>>>,
     <<"\\ud801\\udc1e", <<"\\ud801\\udc46">>>>, <<"\\ud801\\udc1f", <<"\\ud801\\udc47">>>>,
     <<"\\ud801\\udc20", <<"\\ud801\\udc48">>>>, <<"\\ud801\\udc21", <<"\\ud801\\udc49">>>>,
     <<"\\ud801\\udc22", <<"\\ud801\\udc4a">>>>, <<"\\ud801\\udc23", <<"\\ud801\\udc4b">>>>,
     <<"\\ud801\\udc24", <<"\\ud801\\udc4c">>>>, <<"\\ud801\\udc25", <<"\\ud801\\udc4d">>>>,
     <<"\\ud801\\udc26", <<"\\ud801\\udc4e">>>>, <<"\\ud801\\udc27", <<"\\ud801\\udc4f">>>>,
     <<"\\ud801\\udcb0", <<"\\ud801\\udcd8">>>>, <<"\\ud801\\udcb1", <<"\\ud801\\udcd9">>>>,
     <<"\\ud801\\udcb2", <<"\\ud801\\udcda">>>>, <<"\\ud801\\udcb3", <<"\\ud801\\udcdb">>>>,
     <<"\\ud801\\udcb4", <<"\\ud801\\udcdc">>>>, <<"\\ud801\\udcb5", <<"\\ud801\\udcdd">>>>,
     <<"\\ud801\\udcb6", <<"\\ud801\\udcde">>>>, <<"\\ud801\\udcb7", <<"\\ud801\\udcdf">>>>,
     <<"\\ud801\\udcb8", <<"\\ud801\\udce0">>>>, <<"\\ud801\\udcb9", <<"\\ud801\\udce1">>>>,
     <<"\\ud801\\udcba", <<"\\ud801\\udce2">>>>, <<"\\ud801\\udcbb", <<"\\ud801\\udce3">>>>,
     <<"\\ud801\\udcbc", <<"\\ud801\\udce4">>>>, <<"\\ud801\\udcbd", <<"\\ud801\\udce5">>>>,
     <<"\\ud801\\udcbe", <<"\\ud801\\udce6">>>>, <<"\\ud801\\udcbf", <<"\\ud801\\udce7">>>>,
     <<"\\ud801\\udcc0", <<"\\ud801\\udce8">>>>, <<"\\ud801\\udcc1", <<"\\ud801\\udce9">>>>,
     <<"\\ud801\\udcc2", <<"\\ud801\\udcea">>>>, <<"\\ud801\\udcc3", <<"\\ud801\\udceb">>>>,
     <<"\\ud801\\udcc4", <<"\\ud801\\udcec">>>>, <<"\\ud801\\udcc5", <<"\\ud801\\udced">>>>,
     <<"\\ud801\\udcc6", <<"\\ud801\\udcee">>>>, <<"\\ud801\\udcc7", <<"\\ud801\\udcef">>>>,
     <<"\\ud801\\udcc8", <<"\\ud801\\udcf0">>>>, <<"\\ud801\\udcc9", <<"\\ud801\\udcf1">>>>,
     <<"\\ud801\\udcca", <<"\\ud801\\udcf2">>>>, <<"\\ud801\\udccb", <<"\\ud801\\udcf3">>>>,
     <<"\\ud801\\udccc", <<"\\ud801\\udcf4">>>>, <<"\\ud801\\udccd", <<"\\ud801\\udcf5">>>>,
     <<"\\ud801\\udcce", <<"\\ud801\\udcf6">>>>, <<"\\ud801\\udccf", <<"\\ud801\\udcf7">>>>,
     <<"\\ud801\\udcd0", <<"\\ud801\\udcf8">>>>, <<"\\ud801\\udcd1", <<"\\ud801\\udcf9">>>>,
     <<"\\ud801\\udcd2", <<"\\ud801\\udcfa">>>>, <<"\\ud801\\udcd3", <<"\\ud801\\udcfb">>>>,
     <<"\\ud801\\udd70", <<"\\ud801\\udd97">>>>, <<"\\ud801\\udd71", <<"\\ud801\\udd98">>>>,
     <<"\\ud801\\udd72", <<"\\ud801\\udd99">>>>, <<"\\ud801\\udd73", <<"\\ud801\\udd9a">>>>,
     <<"\\ud801\\udd74", <<"\\ud801\\udd9b">>>>, <<"\\ud801\\udd75", <<"\\ud801\\udd9c">>>>,
     <<"\\ud801\\udd76", <<"\\ud801\\udd9d">>>>, <<"\\ud801\\udd77", <<"\\ud801\\udd9e">>>>,
     <<"\\ud801\\udd78", <<"\\ud801\\udd9f">>>>, <<"\\ud801\\udd79", <<"\\ud801\\udda0">>>>,
     <<"\\ud801\\udd7a", <<"\\ud801\\udda1">>>>, <<"\\ud801\\udd7c", <<"\\ud801\\udda3">>>>,
     <<"\\ud801\\udd7d", <<"\\ud801\\udda4">>>>, <<"\\ud801\\udd7e", <<"\\ud801\\udda5">>>>,
     <<"\\ud801\\udd7f", <<"\\ud801\\udda6">>>>, <<"\\ud801\\udd80", <<"\\ud801\\udda7">>>>,
     <<"\\ud801\\udd81", <<"\\ud801\\udda8">>>>, <<"\\ud801\\udd82", <<"\\ud801\\udda9">>>>,
     <<"\\ud801\\udd83", <<"\\ud801\\uddaa">>>>, <<"\\ud801\\udd84", <<"\\ud801\\uddab">>>>,
     <<"\\ud801\\udd85", <<"\\ud801\\uddac">>>>, <<"\\ud801\\udd86", <<"\\ud801\\uddad">>>>,
     <<"\\ud801\\udd87", <<"\\ud801\\uddae">>>>, <<"\\ud801\\udd88", <<"\\ud801\\uddaf">>>>,
     <<"\\ud801\\udd89", <<"\\ud801\\uddb0">>>>, <<"\\ud801\\udd8a", <<"\\ud801\\uddb1">>>>,
     <<"\\ud801\\udd8c", <<"\\ud801\\uddb3">>>>, <<"\\ud801\\udd8d", <<"\\ud801\\uddb4">>>>,
     <<"\\ud801\\udd8e", <<"\\ud801\\uddb5">>>>, <<"\\ud801\\udd8f", <<"\\ud801\\uddb6">>>>,
     <<"\\ud801\\udd90", <<"\\ud801\\uddb7">>>>, <<"\\ud801\\udd91", <<"\\ud801\\uddb8">>>>,
     <<"\\ud801\\udd92", <<"\\ud801\\uddb9">>>>, <<"\\ud801\\udd94", <<"\\ud801\\uddbb">>>>,
     <<"\\ud801\\udd95", <<"\\ud801\\uddbc">>>>, <<"\\ud803\\udc80", <<"\\ud803\\udcc0">>>>,
     <<"\\ud803\\udc81", <<"\\ud803\\udcc1">>>>, <<"\\ud803\\udc82", <<"\\ud803\\udcc2">>>>,
     <<"\\ud803\\udc83", <<"\\ud803\\udcc3">>>>, <<"\\ud803\\udc84", <<"\\ud803\\udcc4">>>>,
     <<"\\ud803\\udc85", <<"\\ud803\\udcc5">>>>, <<"\\ud803\\udc86", <<"\\ud803\\udcc6">>>>,
     <<"\\ud803\\udc87", <<"\\ud803\\udcc7">>>>, <<"\\ud803\\udc88", <<"\\ud803\\udcc8">>>>,
     <<"\\ud803\\udc89", <<"\\ud803\\udcc9">>>>, <<"\\ud803\\udc8a", <<"\\ud803\\udcca">>>>,
     <<"\\ud803\\udc8b", <<"\\ud803\\udccb">>>>, <<"\\ud803\\udc8c", <<"\\ud803\\udccc">>>>,
     <<"\\ud803\\udc8d", <<"\\ud803\\udccd">>>>, <<"\\ud803\\udc8e", <<"\\ud803\\udcce">>>>,
     <<"\\ud803\\udc8f", <<"\\ud803\\udccf">>>>, <<"\\ud803\\udc90", <<"\\ud803\\udcd0">>>>,
     <<"\\ud803\\udc91", <<"\\ud803\\udcd1">>>>, <<"\\ud803\\udc92", <<"\\ud803\\udcd2">>>>,
     <<"\\ud803\\udc93", <<"\\ud803\\udcd3">>>>, <<"\\ud803\\udc94", <<"\\ud803\\udcd4">>>>,
     <<"\\ud803\\udc95", <<"\\ud803\\udcd5">>>>, <<"\\ud803\\udc96", <<"\\ud803\\udcd6">>>>,
     <<"\\ud803\\udc97", <<"\\ud803\\udcd7">>>>, <<"\\ud803\\udc98", <<"\\ud803\\udcd8">>>>,
     <<"\\ud803\\udc99", <<"\\ud803\\udcd9">>>>, <<"\\ud803\\udc9a", <<"\\ud803\\udcda">>>>,
     <<"\\ud803\\udc9b", <<"\\ud803\\udcdb">>>>, <<"\\ud803\\udc9c", <<"\\ud803\\udcdc">>>>,
     <<"\\ud803\\udc9d", <<"\\ud803\\udcdd">>>>, <<"\\ud803\\udc9e", <<"\\ud803\\udcde">>>>,
     <<"\\ud803\\udc9f", <<"\\ud803\\udcdf">>>>, <<"\\ud803\\udca0", <<"\\ud803\\udce0">>>>,
     <<"\\ud803\\udca1", <<"\\ud803\\udce1">>>>, <<"\\ud803\\udca2", <<"\\ud803\\udce2">>>>,
     <<"\\ud803\\udca3", <<"\\ud803\\udce3">>>>, <<"\\ud803\\udca4", <<"\\ud803\\udce4">>>>,
     <<"\\ud803\\udca5", <<"\\ud803\\udce5">>>>, <<"\\ud803\\udca6", <<"\\ud803\\udce6">>>>,
     <<"\\ud803\\udca7", <<"\\ud803\\udce7">>>>, <<"\\ud803\\udca8", <<"\\ud803\\udce8">>>>,
     <<"\\ud803\\udca9", <<"\\ud803\\udce9">>>>, <<"\\ud803\\udcaa", <<"\\ud803\\udcea">>>>,
     <<"\\ud803\\udcab", <<"\\ud803\\udceb">>>>, <<"\\ud803\\udcac", <<"\\ud803\\udcec">>>>,
     <<"\\ud803\\udcad", <<"\\ud803\\udced">>>>, <<"\\ud803\\udcae", <<"\\ud803\\udcee">>>>,
     <<"\\ud803\\udcaf", <<"\\ud803\\udcef">>>>, <<"\\ud803\\udcb0", <<"\\ud803\\udcf0">>>>,
     <<"\\ud803\\udcb1", <<"\\ud803\\udcf1">>>>, <<"\\ud803\\udcb2", <<"\\ud803\\udcf2">>>>,
     <<"\\ud806\\udca0", <<"\\ud806\\udcc0">>>>, <<"\\ud806\\udca1", <<"\\ud806\\udcc1">>>>,
     <<"\\ud806\\udca2", <<"\\ud806\\udcc2">>>>, <<"\\ud806\\udca3", <<"\\ud806\\udcc3">>>>,
     <<"\\ud806\\udca4", <<"\\ud806\\udcc4">>>>, <<"\\ud806\\udca5", <<"\\ud806\\udcc5">>>>,
     <<"\\ud806\\udca6", <<"\\ud806\\udcc6">>>>, <<"\\ud806\\udca7", <<"\\ud806\\udcc7">>>>,
     <<"\\ud806\\udca8", <<"\\ud806\\udcc8">>>>, <<"\\ud806\\udca9", <<"\\ud806\\udcc9">>>>,
     <<"\\ud806\\udcaa", <<"\\ud806\\udcca">>>>, <<"\\ud806\\udcab", <<"\\ud806\\udccb">>>>,
     <<"\\ud806\\udcac", <<"\\ud806\\udccc">>>>, <<"\\ud806\\udcad", <<"\\ud806\\udccd">>>>,
     <<"\\ud806\\udcae", <<"\\ud806\\udcce">>>>, <<"\\ud806\\udcaf", <<"\\ud806\\udccf">>>>,
     <<"\\ud806\\udcb0", <<"\\ud806\\udcd0">>>>, <<"\\ud806\\udcb1", <<"\\ud806\\udcd1">>>>,
     <<"\\ud806\\udcb2", <<"\\ud806\\udcd2">>>>, <<"\\ud806\\udcb3", <<"\\ud806\\udcd3">>>>,
     <<"\\ud806\\udcb4", <<"\\ud806\\udcd4">>>>, <<"\\ud806\\udcb5", <<"\\ud806\\udcd5">>>>,
     <<"\\ud806\\udcb6", <<"\\ud806\\udcd6">>>>, <<"\\ud806\\udcb7", <<"\\ud806\\udcd7">>>>,
     <<"\\ud806\\udcb8", <<"\\ud806\\udcd8">>>>, <<"\\ud806\\udcb9", <<"\\ud806\\udcd9">>>>,
     <<"\\ud806\\udcba", <<"\\ud806\\udcda">>>>, <<"\\ud806\\udcbb", <<"\\ud806\\udcdb">>>>,
     <<"\\ud806\\udcbc", <<"\\ud806\\udcdc">>>>, <<"\\ud806\\udcbd", <<"\\ud806\\udcdd">>>>,
     <<"\\ud806\\udcbe", <<"\\ud806\\udcde">>>>, <<"\\ud806\\udcbf", <<"\\ud806\\udcdf">>>>,
     <<"\\ud81b\\ude40", <<"\\ud81b\\ude60">>>>, <<"\\ud81b\\ude41", <<"\\ud81b\\ude61">>>>,
     <<"\\ud81b\\ude42", <<"\\ud81b\\ude62">>>>, <<"\\ud81b\\ude43", <<"\\ud81b\\ude63">>>>,
     <<"\\ud81b\\ude44", <<"\\ud81b\\ude64">>>>, <<"\\ud81b\\ude45", <<"\\ud81b\\ude65">>>>,
     <<"\\ud81b\\ude46", <<"\\ud81b\\ude66">>>>, <<"\\ud81b\\ude47", <<"\\ud81b\\ude67">>>>,
     <<"\\ud81b\\ude48", <<"\\ud81b\\ude68">>>>, <<"\\ud81b\\ude49", <<"\\ud81b\\ude69">>>>,
     <<"\\ud81b\\ude4a", <<"\\ud81b\\ude6a">>>>, <<"\\ud81b\\ude4b", <<"\\ud81b\\ude6b">>>>,
     <<"\\ud81b\\ude4c", <<"\\ud81b\\ude6c">>>>, <<"\\ud81b\\ude4d", <<"\\ud81b\\ude6d">>>>,
     <<"\\ud81b\\ude4e", <<"\\ud81b\\ude6e">>>>, <<"\\ud81b\\ude4f", <<"\\ud81b\\ude6f">>>>,
     <<"\\ud81b\\ude50", <<"\\ud81b\\ude70">>>>, <<"\\ud81b\\ude51", <<"\\ud81b\\ude71">>>>,
     <<"\\ud81b\\ude52", <<"\\ud81b\\ude72">>>>, <<"\\ud81b\\ude53", <<"\\ud81b\\ude73">>>>,
     <<"\\ud81b\\ude54", <<"\\ud81b\\ude74">>>>, <<"\\ud81b\\ude55", <<"\\ud81b\\ude75">>>>,
     <<"\\ud81b\\ude56", <<"\\ud81b\\ude76">>>>, <<"\\ud81b\\ude57", <<"\\ud81b\\ude77">>>>,
     <<"\\ud81b\\ude58", <<"\\ud81b\\ude78">>>>, <<"\\ud81b\\ude59", <<"\\ud81b\\ude79">>>>,
     <<"\\ud81b\\ude5a", <<"\\ud81b\\ude7a">>>>, <<"\\ud81b\\ude5b", <<"\\ud81b\\ude7b">>>>,
     <<"\\ud81b\\ude5c", <<"\\ud81b\\ude7c">>>>, <<"\\ud81b\\ude5d", <<"\\ud81b\\ude7d">>>>,
     <<"\\ud81b\\ude5e", <<"\\ud81b\\ude7e">>>>, <<"\\ud81b\\ude5f", <<"\\ud81b\\ude7f">>>>,
     <<"\\ud83a\\udd00", <<"\\ud83a\\udd22">>>>, <<"\\ud83a\\udd01", <<"\\ud83a\\udd23">>>>,
     <<"\\ud83a\\udd02", <<"\\ud83a\\udd24">>>>, <<"\\ud83a\\udd03", <<"\\ud83a\\udd25">>>>,
     <<"\\ud83a\\udd04", <<"\\ud83a\\udd26">>>>, <<"\\ud83a\\udd05", <<"\\ud83a\\udd27">>>>,
     <<"\\ud83a\\udd06", <<"\\ud83a\\udd28">>>>, <<"\\ud83a\\udd07", <<"\\ud83a\\udd29">>>>,
     <<"\\ud83a\\udd08", <<"\\ud83a\\udd2a">>>>, <<"\\ud83a\\udd09", <<"\\ud83a\\udd2b">>>>,
     <<"\\ud83a\\udd0a", <<"\\ud83a\\udd2c">>>>, <<"\\ud83a\\udd0b", <<"\\ud83a\\udd2d">>>>,
     <<"\\ud83a\\udd0c", <<"\\ud83a\\udd2e">>>>, <<"\\ud83a\\udd0d", <<"\\ud83a\\udd2f">>>>,
     <<"\\ud83a\\udd0e", <<"\\ud83a\\udd30">>>>, <<"\\ud83a\\udd0f", <<"\\ud83a\\udd31">>>>,
     <<"\\ud83a\\udd10", <<"\\ud83a\\udd32">>>>, <<"\\ud83a\\udd11", <<"\\ud83a\\udd33">>>>,
     <<"\\ud83a\\udd12", <<"\\ud83a\\udd34">>>>, <<"\\ud83a\\udd13", <<"\\ud83a\\udd35">>>>,
     <<"\\ud83a\\udd14", <<"\\ud83a\\udd36">>>>, <<"\\ud83a\\udd15", <<"\\ud83a\\udd37">>>>,
     <<"\\ud83a\\udd16", <<"\\ud83a\\udd38">>>>, <<"\\ud83a\\udd17", <<"\\ud83a\\udd39">>>>,
     <<"\\ud83a\\udd18", <<"\\ud83a\\udd3a">>>>, <<"\\ud83a\\udd19", <<"\\ud83a\\udd3b">>>>,
     <<"\\ud83a\\udd1a", <<"\\ud83a\\udd3c">>>>, <<"\\ud83a\\udd1b", <<"\\ud83a\\udd3d">>>>,
     <<"\\ud83a\\udd1c", <<"\\ud83a\\udd3e">>>>, <<"\\ud83a\\udd1d", <<"\\ud83a\\udd3f">>>>,
     <<"\\ud83a\\udd1e", <<"\\ud83a\\udd40">>>>, <<"\\ud83a\\udd1f", <<"\\ud83a\\udd41">>>>,
     <<"\\ud83a\\udd20", <<"\\ud83a\\udd42">>>>, <<"\\ud83a\\udd21", <<"\\ud83a\\udd43">>>>}

LowerChar(c) ==
    IF \E p \in LowerPairs : p[1] = c
    THEN (CHOOSE p \in LowerPairs : p[1] = c)[2]
    ELSE <<c>>

\* the characters a capital sigma's context skips (Case_Ignorable)
CaseIgnorable ==
    {"'", ".", ":", "^", "\\u0060", "\\u00a8", "\\u00ad", "\\u00af", "\\u00b4", "\\u00b7",
     "\\u00b8", "\\u02b0", "\\u02b1", "\\u02b2", "\\u02b3", "\\u02b4", "\\u02b5", "\\u02b6",
     "\\u02b7", "\\u02b8", "\\u02b9", "\\u02ba", "\\u02bb", "\\u02bc", "\\u02bd", "\\u02be",
     "\\u02bf", "\\u02c0", "\\u02c1", "\\u02c2", "\\u02c3", "\\u02c4", "\\u02c5", "\\u02c6",
     "\\u02c7", "\\u02c8", "\\u02c9", "\\u02ca", "\\u02cb", "\\u02cc", "\\u02cd", "\\u02ce",
     "\\u02cf", "\\u02d0", "\\u02d1", "\\u02d2", "\\u02d3", "\\u02d4", "\\u02d5", "\\u02d6",
     "\\u02d7", "\\u02d8", "\\u02d9", "\\u02da", "\\u02db", "\\u02dc", "\\u02dd", "\\u02de",
     "\\u02df", "\\u02e0", "\\u02e1", "\\u02e2", "\\u02e3", "\\u02e4", "\\u02e5", "\\u02e6",
     "\\u02e7", "\\u02e8", "\\u02e9", "\\u02ea", "\\u02eb", "\\u02ec", "\\u02ed", "\\u02ee",
     "\\u02ef", "\\u02f0", "\\u02f1", "\\u02f2", "\\u02f3", "\\u02f4", "\\u02f5", "\\u02f6",
     "\\u02f7", "\\u02f8", "\\u02f9", "\\u02fa", "\\u02fb", "\\u02fc", "\\u02fd", "\\u02fe",
     "\\u02ff", "\\u0300", "\\u0301", "\\u0302", "\\u0303", "\\u0304", "\\u0305", "\\u0306",
     "\\u0307", "\\u0308", "\\u0309", "\\u030a", "\\u030b", "\\u030c", "\\u030d", "\\u030e",
     "\\u030f", "\\u0310", "\\u0311", "\\u0312", "\\u0313", "\\u0314", "\\u0315", "\\u0316",
     "\\u0317", "\\u0318", "\\u0319", "\\u031a", "\\u031b", "\\u031c", "\\u031d", "\\u031e",
     "\\u031f", "\\u0320", "\\u0321", "\\u0322", "\\u0323", "\\u0324", "\\u0325", "\\u0326",
     "\\u0327", "\\u0328", "\\u0329", "\\u032a", "\\u032b", "\\u032c", "\\u032d", "\\u032e",
     "\\u032f", "\\u0330", "\\u0331", "\\u0332", "\\u0333", "\\u0334", "\\u0335", "\\u0336",
     "\\u0337", "\\u0338", "\\u0339", "\\u033a", "\\u033b", "\\u033c", "\\u033d", "\\u033e",
     "\\u033f", "\\u0340", "\\u0341", "\\u0342", "\\u0343", "\\u0344", "\\u0345", "\\u0346",
     "\\u0347", "\\u0348", "\\u0349", "\\u034a", "\\u034b", "\\u034c", "\\u034d", "\\u034e",
     "\\u034f", "\\u0350", "\\u0351", "\\u0352", "\\u0353", "\\u0354", "\\u0355", "\\u0356",
     "\\u0357", "\\u0358", "\\u0359", "\\u035a", "\\u035b", "\\u035c", "\\u035d", "\\u035e",
     "\\u035f", "\\u0360", "\\u0361", "\\u0362", "\\u0363", "\\u0364", "\\u0365", "\\u0366",
     "\\u0367", "\\u0368", "\\u0369", "\\u036a", "\\u036b", "\\u036c", "\\u036d", "\\u036e",
     "\\u036f", "\\u0374", "\\u0375", "\\u037a", "\\u0384", "\\u0385", "\\u0387", "\\u0483",
     "\\u0484", "\\u0485", "\\u0486", "\\u0487", "\\u0488", "\\u0489", "\\u0559", "\\u055f",
     "\\u0591", "\\u0592", "\\u0593", "\\u0594", "\\u0595", "\\u0596", "\\u0597", "\\u0598",
     "\\u0599", "\\u059a", "\\u059b", "\\u059c", "\\u059d", "\\u059e", "\\u059f", "\\u05a0",
     "\\u05a1", "\\u05a2", "\\u05a3", "\\u05a4", "\\u05a5", "\\u05a6", "\\u05a7", "\\u05a8",
     "\\u05a9", "\\u05aa", "\\u05ab", "\\u05ac", "\\u05ad", "\\u05ae", "\\u05af", "\\u05b0",
     "\\u05b1", "\\u05b2", "\\u05b3", "\\u05b4", "\\u05b5", "\\u05b6", "\\u05b7", "\\u05b8",
     "\\u05b9", "\\u05ba", "\\u05bb", "\\u05bc", "\\u05bd", "\\u05bf", "\\u05c1", "\\u05c2",
     "\\u05c4", "\\u05c5", "\\u05c7", "\\u05f4", "\\u0600", "\\u0601", "\\u0602", "\\u0603",
     "\\u0604", "\\u0605", "\\u0610", "\\u0611", "\\u0612", "\\u0613", "\\u0614", "\\u0615",
     "\\u0616", "\\u0617", "\\u0618", "\\u0619", "\\u061a", "\\u061c", "\\u0640", "\\u064b",
     "\\u064c", "\\u064d", "\\u064e", "\\u064f", "\\u0650", "\\u0651", "\\u0652", "\\u0653",
     "\\u0654", "\\u0655", "\\u0656", "\\u0657", "\\u0658", "\\u0659", "\\u065a", "\\u065b",
     "\\u065c", "\\u065d", "\\u065e", "\\u065f", "\\u0670", "\\u06d6", "\\u06d7", "\\u06d8",
     "\\u06d9", "\\u06da", "\\u06db", "\\u06dc", "\\u06dd", "\\u06df", "\\u06e0", "\\u06e1",
     "\\u06e2", "\\u06e3", "\\u06e4", "\\u06e5", "\\u06e6", "\\u06e7", "\\u06e8", "\\u06ea",
     "\\u06eb", "\\u06ec", "\\u06ed", "\\u070f", "\\u0711", "\\u0730", "\\u0731", "\\u0732",
     "\\u0733", "\\u0734", "\\u0735", "\\u0736", "\\u0737", "\\u0738", "\\u0739", "\\u073a",
     "\\u073b", "\\u073c", "\\u073d", "\\u073e", "\\u073f", "\\u0740", "\\u0741", "\\u0742",
     "\\u0743", "\\u0744", "\\u0745", "\\u0746", "\\u0747", "\\u0748", "\\u0749", "\\u074a",
     "\\u07a6", "\\u07a7", "\\u07a8", "\\u07a9", "\\u07aa", "\\u07ab", "\\u07ac", "\\u07ad",
     "\\u07ae", "\\u07af", "\\u07b0", "\\u07eb", "\\u07ec", "\\u07ed", "\\u07ee", "\\u07ef",
     "\\u07f0", "\\u07f1", "\\u07f2", "\\u07f3", "\\u07f4", "\\u07f5", "\\u07fa", "\\u07fd",
     "\\u0816", "\\u0817", "\\u0818", "\\u0819", "\\u081a", "\\u081b", "\\u081c", "\\u081d",
     "\\u081e", "\\u081f", "\\u0820", "\\u0821", "\\u0822", "\\u0823", "\\u0824", "\\u0825",
     "\\u0826", "\\u0827", "\\u0828", "\\u0829", "\\u082a", "\\u082b", "\\u082c", "\\u082d",
     "\\u0859", "\\u085a", "\\u085b", "\\u0888", "\\u0890", "\\u0891", "\\u0898", "\\u0899",
     "\\u089a", "\\u089b", "\\u089c", "\\u089d", "\\u089e", "\\u089f", "\\u08c9", "\\u08ca",
     "\\u08cb", "\\u08cc", "\\u08cd", "\\u08ce", "\\u08cf", "\\u08d0", "\\u08d1", "\\u08d2",
     "\\u08d3", "\\u08d4", "\\u08d5", "\\u08d6", "\\u08d7", "\\u08d8", "\\u08d9", "\\u08da",
     "\\u08db", "\\u08dc", "\\u08dd", "\\u08de", "\\u08df", "\\u08e0", "\\u08e1", "\\u08e2",
     "\\u08e3", "\\u08e4", "\\u08e5", "\\u08e6", "\\u08e7", "\\u08e8", "\\u08e9", "\\u08ea",
     "\\u08eb", "\\u08ec", "\\u08ed", "\\u08ee", "\\u08ef", "\\u08f0", "\\u08f1", "\\u08f2",
     "\\u08f3", "\\u08f4", "\\u08f5", "\\u08f6", "\\u08f7", "\\u08f8", "\\u08f9", "\\u08fa",
     "\\u08fb", "\\u08fc", "\\u08fd", "\\u08fe", "\\u08ff", "\\u0900", "\\u0901", "\\u0902",
     "\\u093a", "\\u093c", "\\u0941", "\\u0942", "\\u0943", "\\u0944", "\\u0945", "\\u0946",
     "\\u0947", "\\u0948", "\\u094d", "\\u0951", "\\u0952", "\\u0953", "\\u0954", "\\u0955",
     "\\u0956", "\\u0957", "\\u0962", "\\u0963", "\\u0971", "\\u0981", "\\u09bc", "\\u09c1",
     "\\u09c2", "\\u09c3", "\\u09c4", "\\u09cd", "\\u09e2", "\\u09e3", "\\u09fe", "\\u0a01",
     "\\u0a02", "\\u0a3c", "\\u0a41", "\\u0a42", "\\u0a47", "\\u0a48", "\\u0a4b", "\\u0a4c",
     "\\u0a4d", "\\u0a51", "\\u0a70", "\\u0a71", "\\u0a75", "\\u0a81", "\\u0a82", "\\u0abc",
     "\\u0ac1", "\\u0ac2", "\\u0ac3", "\\u0ac4", "\\u0ac5", "\\u0ac7", "\\u0ac8", "\\u0acd",
     "\\u0ae2", "\\u0ae3", "\\u0afa", "\\u0afb", "\\u0afc", "\\u0afd", "\\u0afe", "\\u0aff",
     "\\u0b01", "\\u0b3c", "\\u0b3f", "\\u0b41", "\\u0b42", "\\u0b43", "\\u0b44", "\\u0b4d",
     "\\u0b55", "\\u0b56", "\\u0b62", "\\u0b63", "\\u0b82", "\\u0bc0", "\\u0bcd", "\\u0c00",
     "\\u0c04", "\\u0c3c", "\\u0c3e", "\\u0c3f", "\\u0c40", "\\u0c46", "\\u0c47", "\\u0c48",
     "\\u0c4a", "\\u0c4b", "\\u0c4c", "\\u0c4d", "\\u0c55", "\\u0c56", "\\u0c62", "\\u0c63",
     "\\u0c81", "\\u0cbc", "\\u0cbf", "\\u0cc6", "\\u0ccc", "\\u0ccd", "\\u0ce2", "\\u0ce3",
     "\\u0d00", "\\u0d01", "\\u0d3b", "\\u0d3c", "\\u0d41", "\\u0d42", "\\u0d43", "\\u0d44",
     "\\u0d4d", "\\u0d62", "\\u0d63", "\\u0d81", "\\u0dca", "\\u0dd2", "\\u0dd3", "\\u0dd4",
     "\\u0dd6", "\\u0e31", "\\u0e34", "\\u0e35", "\\u0e36", "\\u0e37", "\\u0e38", "\\u0e39",
     "\\u0e3a", "\\u0e46", "\\u0e47", "\\u0e48", "\\u0e49", "\\u0e4a", "\\u0e4b", "\\u0e4c",
     "\\u0e4d", "\\u0e4e", "\\u0eb1", "\\u0eb4", "\\u0eb5", "\\u0eb6", "\\u0eb7", "\\u0eb8",
     "\\u0eb9", "\\u0eba", "\\u0ebb", "\\u0ebc", "\\u0ec6", "\\u0ec8", "\\u0ec9", "\\u0eca",
     "\\u0ecb", "\\u0ecc", "\\u0ecd", "\\u0f18", "\\u0f19", "\\u0f35", "\\u0f37", "\\u0f39",
     "\\u0f71", "\\u0f72", "\\u0f73", "\\u0f74", "\\u0f75", "\\u0f76", "\\u0f77", "\\u0f78",
     "\\u0f79", "\\u0f7a", "\\u0f7b", "\\u0f7c", "\\u0f7d", "\\u0f7e", "\\u0f80", "\\u0f81",
     "\\u0f82", "\\u0f83", "\\u0f84", "\\u0f86", "\\u0f87", "\\u0f8d", "\\u0f8e", "\\u0f8f",
     "\\u0f90", "\\u0f91", "\\u0f92", "\\u0f93", "\\u0f94", "\\u0f95", "\\u0f96", "\\u0f97",
     "\\u0f99", "\\u0f9a", "\\u0f9b", "\\u0f9c", "\\u0f9d", "\\u0f9e", "\\u0f9f", "\\u0fa0",
     "\\u0fa1", "\\u0fa2", "\\u0fa3", "\\u0fa4", "\\u0fa5", "\\u0fa6", "\\u0fa7", "\\u0fa8",
     "\\u0fa9", "\\u0faa", "\\u0fab", "\\u0fac", "\\u0fad", "\\u0fae", "\\u0faf", "\\u0fb0",
     "\\u0fb1", "\\u0fb2", "\\u0fb3", "\\u0fb4", "\\u0fb5", "\\u0fb6", "\\u0fb7", "\\u0fb8",
     "\\u0fb9", "\\u0fba", "\\u0fbb", "\\u0fbc", "\\u0fc6", "\\u102d", "\\u102e", "\\u102f",
     "\\u1030", "\\u1032", "\\u1033", "\\u1034", "\\u1035", "\\u1036", "\\u1037", "\\u1039",
     "\\u103a", "\\u103d", "\\u103e", "\\u1058", "\\u1059", "\\u105e", "\\u105f", "\\u1060",
     "\\u1071", "\\u1072", "\\u1073", "\\u1074", "\\u1082", "\\u1085", "\\u1086", "\\u108d",
     "\\u109d", "\\u10fc", "\\u135d", "\\u135e", "\\u135f", "\\u1712", "\\u1713", "\\u1714",
     "\\u1732", "\\u1733", "\\u1752", "\\u1753", "\\u1772", "\\u1773", "\\u17b4", "\\u17b5",
     "\\u17b7", "\\u17b8", "\\u17b9", "\\u17ba", "\\u17bb", "\\u17bc", "\\u17bd", "\\u17c6",
     "\\u17c9", "\\u17ca", "\\u17cb", "\\u17cc", "\\u17cd", "\\u17ce", "\\u17cf", "\\u17d0",
     "\\u17d1", "\\u17d2", "\\u17d3", "\\u17d7", "\\u17dd", "\\u180b", "\\u180c", "\\u180d",
     "\\u180e", "\\u180f", "\\u1843", "\\u1885", "\\u1886", "\\u18a9", "\\u1920", "\\u1921",
     "\\u1922", "\\u1927", "\\u1928", "\\u1932", "\\u1939", "\\u193a", "\\u193b", "\\u1a17",
     "\\u1a18", "\\u1a1b", "\\u1a56", "\\u1a58", "\\u1a59", "\\u1a5a", "\\u1a5b", "\\u1a5c",
     "\\u1a5d", "\\u1a5e", "\\u1a60", "\\u1a62", "\\u1a65", "\\u1a66", "\\u1a67", "\\u1a68",
     "\\u1a69", "\\u1a6a", "\\u1a6b", "\\u1a6c", "\\u1a73", "\\u1a74", "\\u1a75", "\\u1a76",
     "\\u1a77", "\\u1a78", "\\u1a79", "\\u1a7a", "\\u1a7b", "\\u1a7c", "\\u1a7f", "\\u1aa7",
     "\\u1ab0", "\\u1ab1", "\\u1ab2", "\\u1ab3", "\\u1ab4", "\\u1ab5", "\\u1ab6", "\\u1ab7",
     "\\u1ab8", "\\u1ab9", "\\u1aba", "\\u1abb", "\\u1abc", "\\u1abd", "\\u1abe", "\\u1abf",
     "\\u1ac0", "\\u1ac1", "\\u1ac2", "\\u1ac3", "\\u1ac4", "\\u1ac5", "\\u1ac6", "\\u1ac7",
     "\\u1ac8", "\\u1ac9", "\\u1aca", "\\u1acb", "\\u1acc", "\\u1acd", "\\u1ace", "\\u1b00",
     "\\u1b01", "\\u1b02", "\\u1b03", "\\u1b34", "\\u1b36", "\\u1b37", "\\u1b38", "\\u1b39",
     "\\u1b3a", "\\u1b3c", "\\u1b42", "\\u1b6b", "\\u1b6c", "\\u1b6d", "\\u1b6e", "\\u1b6f",
     "\\u1b70", "\\u1b71", "\\u1b72", "\\u1b73", "\\u1b80", "\\u1b81", "\\u1ba2", "\\u1ba3",
     "\\u1ba4", "\\u1ba5", "\\u1ba8", "\\u1ba9", "\\u1bab", "\\u1bac", "\\u1bad", "\\u1be6",
     "\\u1be8", "\\u1be9", "\\u1bed", "\\u1bef", "\\u1bf0", "\\u1bf1", "\\u1c2c", "\\u1c2d",
     "\\u1c2e", "\\u1c2f", "\\u1c30", "\\u1c31", "\\u1c32", "\\u1c33", "\\u1c36", "\\u1c37",
     "\\u1c78", "\\u1c79", "\\u1c7a", "\\u1c7b", "\\u1c7c", "\\u1c7d", "\\u1cd0", "\\u1cd1",
     "\\u1cd2", "\\u1cd4", "\\u1cd5", "\\u1cd6", "\\u1cd7", "\\u1cd8", "\\u1cd9", "\\u1cda",
     "\\u1cdb", "\\u1cdc", "\\u1cdd", "\\u1cde", "\\u1cdf", "\\u1ce0", "\\u1ce2", "\\u1ce3",
     "\\u1ce4", "\\u1ce5", "\\u1ce6", "\\u1ce7", "\\u1ce8", "\\u1ced", "\\u1cf4", "\\u1cf8",
     "\\u1cf9", "\\u1d2c", "\\u1d2d", "\\u1d2e", "\\u1d2f", "\\u1d30", "\\u1d31", "\\u1d32",
     "\\u1d33", "\\u1d34", "\\u1d35", "\\u1d36", "\\u1d37", "\\u1d38", "\\u1d39", "\\u1d3a",
     "\\u1d3b", "\\u1d3c", "\\u1d3d", "\\u1d3e", "\\u1d3f", "\\u1d40", "\\u1d41", "\\u1d42",
     "\\u1d43", "\\u1d44", "\\u1d45", "\\u1d46", "\\u1d47", "\\u1d48", "\\u1d49", "\\u1d4a",
     "\\u1d4b", "\\u1d4c", "\\u1d4d", "\\u1d4e", "\\u1d4f", "\\u1d50", "\\u1d51", "\\u1d52",
     "\\u1d53", "\\u1d54", "\\u1d55", "\\u1d56", "\\u1d57", "\\u1d58", "\\u1d59", "\\u1d5a",
     "\\u1d5b", "\\u1d5c", "\\u1d5d", "\\u1d5e", "\\u1d5f", "\\u1d60", "\\u1d61", "\\u1d62",
     "\\u1d63", "\\u1d64", "\\u1d65", "\\u1d66", "\\u1d67", "\\u1d68", "\\u1d69", "\\u1d6a",
     "\\u1d78", "\\u1d9b", "\\u1d9c", "\\u1d9d", "\\u1d9e", "\\u1d9f", "\\u1da0", "\\u1da1",
     "\\u1da2", "\\u1da3", "\\u1da4", "\\u1da5", "\\u1da6", "\\u1da7", "\\u1da8", "\\u1da9",
     "\\u1daa", "\\u1dab", "\\u1dac", "\\u1dad", "\\u1dae", "\\u1daf", "\\u1db0", "\\u1db1",
     "\\u1db2", "\\u1db3", "\\u1db4", "\\u1db5", "\\u1db6", "\\u1db7", "\\u1db8", "\\u1db9",
     "\\u1dba", "\\u1dbb", "\\u1dbc", "\\u1dbd", "\\u1dbe", "\\u1dbf", "\\u1dc0", "\\u1dc1",
     "\\u1dc2", "\\u1dc3", "\\u1dc4", "\\u1dc5", "\\u1dc6", "\\u1dc7", "\\u1dc8", "\\u1dc9",
     "\\u1dca", "\\u1dcb", "\\u1dcc", "\\u1dcd", "\\u1dce", "\\u1dcf", "\\u1dd0", "\\u1dd1",
     "\\u1dd2", "\\u1dd3", "\\u1dd4", "\\u1dd5", "\\u1dd6", "\\u1dd7", "\\u1dd8", "\\u1dd9",
     "\\u1dda", "\\u1ddb", "\\u1ddc", "\\u1ddd", "\\u1dde", "\\u1ddf", "\\u1de0", "\\u1de1",
     "\\u1de2", "\\u1de3", "\\u1de4", "\\u1de5", "\\u1de6", "\\u1de7", "\\u1de8", "\\u1de9",
     "\\u1dea", "\\u1deb", "\\u1dec", "\\u1ded", "\\u1dee", "\\u1def", "\\u1df0", "\\u1df1",
     "\\u1df2", "\\u1df3", "\\u1df4", "\\u1df5", "\\u1df6", "\\u1df7", "\\u1df8", "\\u1df9",
     "\\u1dfa", "\\u1dfb", "\\u1dfc", "\\u1dfd", "\\u1dfe", "\\u1dff", "\\u1fbd", "\\u1fbf",
     "\\u1fc0", "\\u1fc1", "\\u1fcd", "\\u1fce", "\\u1fcf", "\\u1fdd", "\\u1fde", "\\u1fdf",
     "\\u1fed", "\\u1fee", "\\u1fef", "\\u1ffd", "\\u1ffe", "\\u200b", "\\u200c", "\\u200d",
     "\\u200e", "\\u200f", "\\u2018", "\\u2019", "\\u2024", "\\u2027", "\\u202a", "\\u202b",
     "\\u202c", "\\u202d", "\\u202e", "\\u2060", "\\u2061", "\\u2062", "\\u2063", "\\u2064",
     "\\u2066", "\\u2067", "\\u2068", "\\u2069", "\\u206a", "\\u206b", "\\u206c", "\\u206d",
     "\\u206e", "\\u206f", "\\u2071", "\\u207f", "\\u2090", "\\u2091", "\\u2092", "\\u2093",
     "\\u2094", "\\u2095", "\\u2096", "\\u2097", "\\u2098", "\\u2099", "\\u209a", "\\u209b",
     "\\u209c", "\\u20d0", "\\u20d1", "\\u20d2", "\\u20d3", "\\u20d4", "\\u20d5", "\\u20d6",
     "\\u20d7", "\\u20d8", "\\u20d9", "\\u20da", "\\u20db", "\\u20dc", "\\u20dd", "\\u20de",
     "\\u20df", "\\u20e0", "\\u20e1", "\\u20e2", "\\u20e3", "\\u20e4", "\\u20e5", "\\u20e6",
     "\\u20e7", "\\u20e8", "\\u20e9", "\\u20ea", "\\u20eb", "\\u20ec", "\\u20ed", "\\u20ee",
     "\\u20ef", "\\u20f0", "\\u2c7c", "\\u2c7d", "\\u2cef", "\\u2cf0", "\\u2cf1", "\\u2d6f",
     "\\u2d7f", "\\u2de0", "\\u2de1", "\\u2de2", "\\u2de3", "\\u2de4", "\\u2de5", "\\u2de6",
     "\\u2de7", "\\u2de8", "\\u2de9", "\\u2dea", "\\u2deb", "\\u2dec", "\\u2ded", "\\u2dee",
     "\\u2def", "\\u2df0", "\\u2df1", "\\u2df2", "\\u2df3", "\\u2df4", "\\u2df5", "\\u2df6",
     "\\u2df7", "\\u2df8", "\\u2df9", "\\u2dfa", "\\u2dfb", "\\u2dfc", "\\u2dfd", "\\u2dfe",
     "\\u2dff", "\\u2e2f", "\\u3005", "\\u302a", "\\u302b", "\\u302c", "\\u302d", "\\u3031",
     "\\u3032", "\\u3033", "\\u3034", "\\u3035", "\\u303b", "\\u3099", "\\u309a", "\\u309b",
     "\\u309c", "\\u309d", "\\u309e", "\\u30fc", "\\u30fd", "\\u30fe", "\\ua015", "\\ua4f8",
     "\\ua4f9", "\\ua4fa", "\\ua4fb", "\\ua4fc", "\\ua4fd", "\\ua60c", "\\ua66f", "\\ua670",
     "\\ua671", "\\ua672", "\\ua674", "\\ua675", "\\ua676", "\\ua677", "\\ua678", "\\ua679",
     "\\ua67a", "\\ua67b", "\\ua67c", "\\ua67d", "\\ua67f", "\\ua69c", "\\ua69d", "\\ua69e",
     "\\ua69f", "\\ua6f0", "\\ua6f1", "\\ua700", "\\ua701", "\\ua702", "\\ua703", "\\ua704",
     "\\ua705", "\\ua706", "\\ua707", "\\ua708", "\\ua709", "\\ua70a", "\\ua70b", "\\ua70c",
     "\\ua70d", "\\ua70e", "\\ua70f", "\\ua710", "\\ua711", "\\ua712", "\\ua713", "\\ua714",
     "\\ua715", "\\ua716", "\\ua717", "\\ua718", "\\ua719", "\\ua71a", "\\ua71b", "\\ua71c",
     "\\ua71d", "\\ua71e", "\\ua71f", "\\ua720", "\\ua721", "\\ua770", "\\ua788", "\\ua789",
     "\\ua78a", "\\ua7f2", "\\ua7f3", "\\ua7f4", "\\ua7f8", "\\ua7f9", "\\ua802", "\\ua806",
     "\\ua80b", "\\ua825", "\\ua826", "\\ua82c", "\\ua8c4", "\\ua8c5", "\\ua8e0", "\\ua8e1",
     "\\ua8e2", "\\ua8e3", "\\ua8e4", "\\ua8e5", "\\ua8e6", "\\ua8e7", "\\ua8e8", "\\ua8e9",
     "\\ua8ea", "\\ua8eb", "\\ua8ec", "\\ua8ed", "\\ua8ee", "\\ua8ef", "\\ua8f0", "\\ua8f1",
     "\\ua8ff", "\\ua926", "\\ua927", "\\ua928", "\\ua929", "\\ua92a", "\\ua92b", "\\ua92c",
     "\\ua92d", "\\ua947", "\\ua948", "\\ua949", "\\ua94a", "\\ua94b", "\\ua94c", "\\ua94d",
     "\\ua94e", "\\ua94f", "\\ua950", "\\ua951", "\\ua980", "\\ua981", "\\ua982", "\\ua9b3",
     "\\ua9b6", "\\ua9b7", "\\ua9b8", "\\ua9b9", "\\ua9bc", "\\ua9bd", "\\ua9cf", "\\ua9e5",
     "\\ua9e6", "\\uaa29", "\\uaa2a", "\\uaa2b", "\\uaa2c", "\\uaa2d", "\\uaa2e", "\\uaa31",
     "\\uaa32", "\\uaa35", "\\uaa36", "\\uaa43", "\\uaa4c", "\\uaa70", "\\uaa7c", "\\uaab0",
     "\\uaab2", "\\uaab3", "\\uaab4", "\\uaab7", "\\uaab8", "\\uaabe", "\\uaabf", "\\uaac1",
     "\\uaadd", "\\uaaec", "\\uaaed", "\\uaaf3", "\\uaaf4", "\\uaaf6", "\\uab5b", "\\uab5c",
     "\\uab5d", "\\uab5e", "\\uab5f", "\\uab69", "\\uab6a", "\\uab6b", "\\uabe5", "\\uabe8",
     "\\uabed", "\\ufb1e", "\\ufbb2", "\\ufbb3", "\\ufbb4", "\\ufbb5", "\\ufbb6", "\\ufbb7",
     "\\ufbb8", "\\ufbb9", "\\ufbba", "\\ufbbb", "\\ufbbc", "\\ufbbd", "\\ufbbe", "\\ufbbf",
     "\\ufbc0", "\\ufbc1", "\\ufbc2", "\\ufe00", "\\ufe01", "\\ufe02", "\\ufe03", "\\ufe04",
     "\\ufe05", "\\ufe06", "\\ufe07", "\\ufe08", "\\ufe09", "\\ufe0a", "\\ufe0b", "\\ufe0c",
     "\\ufe0d", "\\ufe0e", "\\ufe0f", "\\ufe13", "\\ufe20", "\\ufe21", "\\ufe22", "\\ufe23",
     "\\ufe24", "\\ufe25", "\\ufe26", "\\ufe27", "\\ufe28", "\\ufe29", "\\ufe2a", "\\ufe2b",
     "\\ufe2c", "\\ufe2d", "\\ufe2e", "\\ufe2f", "\\ufe52", "\\ufe55", "\\ufeff", "\\uff07",
     "\\uff0e", "\\uff1a", "\\uff3e", "\\uff40", "\\uff70", "\\uff9e", "\\uff9f", "\\uffe3",
     "\\ufff9", "\\ufffa", "\\ufffb", "\\ud800\\uddfd", "\\ud800\\udee0", "\\ud800\\udf76",
     "\\ud800\\udf77", "\\ud800\\udf78", "\\ud800\\udf79", "\\ud800\\udf7a", "\\ud801\\udf80",
     "\\ud801\\udf81", "\\ud801\\udf82", "\\ud801\\udf83", "\\ud801\\udf84", "\\ud801\\udf85",
     "\\ud801\\udf87", "\\ud801\\udf88", "\\ud801\\udf89", "\\ud801\\udf8a", "\\ud801\\udf8b",
     "\\ud801\\udf8c", "\\ud801\\udf8d", "\\ud801\\udf8e", "\\ud801\\udf8f", "\\ud801\\udf90",
     "\\ud801\\udf91", "\\ud801\\udf92", "\\ud801\\udf93", "\\ud801\\udf94", "\\ud801\\udf95",
     "\\ud801\\udf96", "\\ud801\\udf97", "\\ud801\\udf98", "\\ud801\\udf99", "\\ud801\\udf9a",
     "\\ud801\\udf9b", "\\ud801\\udf9c", "\\ud801\\udf9d", "\\ud801\\udf9e", "\\ud801\\udf9f",
     "\\ud801\\udfa0", "\\ud801\\udfa1", "\\ud801\\udfa2", "\\ud801\\udfa3", "\\ud801\\udfa4",
     "\\ud801\\udfa5", "\\ud801\\udfa6", "\\ud801\\udfa7", "\\ud801\\udfa8", "\\ud801\\udfa9",
     "\\ud801\\udfaa", "\\ud801\\udfab", "\\ud801\\udfac", "\\ud801\\udfad", "\\ud801\\udfae",
     "\\ud801\\udfaf", "\\ud801\\udfb0", "\\ud801\\udfb2", "\\ud801\\udfb3", "\\ud801\\udfb4",
     "\\ud801\\udfb5", "\\ud801\\udfb6", "\\ud801\\udfb7", "\\ud801\\udfb8", "\\ud801\\udfb9",
     "\\ud801\\udfba", "\\ud802\\ude01", "\\ud802\\ude02", "\\ud802\\ude03", "\\ud802\\ude05",
     "\\ud802\\ude06", "\\ud802\\ude0c", "\\ud802\\ude0d", "\\ud802\\ude0e", "\\ud802\\ude0f",
     "\\ud802\\ude38", "\\ud802\\ude39", "\\ud802\\ude3a", "\\ud802\\ude3f", "\\ud802\\udee5",
     "\\ud802\\udee6", "\\ud803\\udd24", "\\ud803\\udd25", "\\ud803\\udd26", "\\ud803\\udd27",
     "\\ud803\\udeab", "\\ud803\\udeac", "\\ud803\\udf46", "\\ud803\\udf47", "\\ud803\\udf48",
     "\\ud803\\udf49", "\\ud803\\udf4a", "\\ud803\\udf4b", "\\ud803\\udf4c", "\\ud803\\udf4d",
     "\\ud803\\udf4e", "\\ud803\\udf4f", "\\ud803\\udf50", "\\ud803\\udf82", "\\ud803\\udf83",
     "\\ud803\\udf84", "\\ud803\\udf85", "\\ud804\\udc01", "\\ud804\\udc38", "\\ud804\\udc39",
     "\\ud804\\udc3a", "\\ud804\\udc3b", "\\ud804\\udc3c", "\\ud804\\udc3d", "\\ud804\\udc3e",
     "\\ud804\\udc3f", "\\ud804\\udc40", "\\ud804\\udc41", "\\ud804\\udc42", "\\ud804\\udc43",
     "\\ud804\\udc44", "\\ud804\\udc45", "\\ud804\\udc46", "\\ud804\\udc70", "\\ud804\\udc73",
     "\\ud804\\udc74", "\\ud804\\udc7f", "\\ud804\\udc80", "\\ud804\\udc81", "\\ud804\\udcb3",
     "\\ud804\\udcb4", "\\ud804\\udcb5", "\\ud804\\udcb6", "\\ud804\\udcb9", "\\ud804\\udcba",
     "\\ud804\\udcbd", "\\ud804\\udcc2", "\\ud804\\udccd", "\\ud804\\udd00", "\\ud804\\udd01",
     "\\ud804\\udd02", "\\ud804\\udd27", "\\ud804\\udd28", "\\ud804\\udd29", "\\ud804\\udd2a",
     "\\ud804\\udd2b", "\\ud804\\udd2d", "\\ud804\\udd2e", "\\ud804\\udd2f", "\\ud804\\udd30",
     "\\ud804\\udd31", "\\ud804\\udd32", "\\ud804\\udd33", "\\ud804\\udd34", "\\ud804\\udd73",
     "\\ud804\\udd80", "\\ud804\\udd81", "\\ud804\\uddb6", "\\ud804\\uddb7", "\\ud804\\uddb8",
     "\\ud804\\uddb9", "\\ud804\\uddba", "\\ud804\\uddbb", "\\ud804\\uddbc", "\\ud804\\uddbd",
     "\\ud804\\uddbe", "\\ud804\\uddc9", "\\ud804\\uddca", "\\ud804\\uddcb", "\\ud804\\uddcc",
     "\\ud804\\uddcf", "\\ud804\\ude2f", "\\ud804\\ude30", "\\ud804\\ude31", "\\ud804\\ude34",
     "\\ud804\\ude36", "\\ud804\\ude37", "\\ud804\\ude3e", "\\ud804\\udedf", "\\ud804\\udee3",
     "\\ud804\\udee4", "\\ud804\\udee5", "\\ud804\\udee6", "\\ud804\\udee7", "\\ud804\\udee8",
     "\\ud804\\udee9", "\\ud804\\udeea", "\\ud804\\udf00", "\\ud804\\udf01", "\\ud804\\udf3b",
     "\\ud804\\udf3c", "\\ud804\\udf40", "\\ud804\\udf66", "\\ud804\\udf67", "\\ud804\\udf68",
     "\\ud804\\udf69", "\\ud804\\udf6a", "\\ud804\\udf6b", "\\ud804\\udf6c", "\\ud804\\udf70",
     "\\ud804\\udf71", "\\ud804\\udf72", "\\ud804\\udf73", "\\ud804\\udf74", "\\ud805\\udc38",
     "\\ud805\\udc39", "\\ud805\\udc3a", "\\ud805\\udc3b", "\\ud805\\udc3c", "\\ud805\\udc3d",
     "\\ud805\\udc3e", "\\ud805\\udc3f", "\\ud805\\udc42", "\\ud805\\udc43", "\\ud805\\udc44",
     "\\ud805\\udc46", "\\ud805\\udc5e", "\\ud805\\udcb3", "\\ud805\\udcb4", "\\ud805\\udcb5",
     "\\ud805\\udcb6", "\\ud805\\udcb7", "\\ud805\\udcb8", "\\ud805\\udcba", "\\ud805\\udcbf",
     "\\ud805\\udcc0", "\\ud805\\udcc2", "\\ud805\\udcc3", "\\ud805\\uddb2", "\\ud805\\uddb3",
     "\\ud805\\uddb4", "\\ud805\\uddb5", "\\ud805\\uddbc", "\\ud805\\uddbd", "\\ud805\\uddbf",
     "\\ud805\\uddc0", "\\ud805\\udddc", "\\ud805\\udddd", "\\ud805\\ude33", "\\ud805\\ude34",
     "\\ud805\\ude35", "\\ud805\\ude36", "\\ud805\\ude37", "\\ud805\\ude38", "\\ud805\\ude39",
     "\\ud805\\ude3a", "\\ud805\\ude3d", "\\ud805\\ude3f", "\\ud805\\ude40", "\\ud805\\udeab",
     "\\ud805\\udead", "\\ud805\\udeb0", "\\ud805\\udeb1", "\\ud805\\udeb2", "\\ud805\\udeb3",
     "\\ud805\\udeb4", "\\ud805\\udeb5", "\\ud805\\udeb7", "\\ud805\\udf1d", "\\ud805\\udf1e",
     "\\ud805\\udf1f", "\\ud805\\udf22", "\\ud805\\udf23", "\\ud805\\udf24", "\\ud805\\udf25",
     "\\ud805\\udf27", "\\ud805\\udf28", "\\ud805\\udf29", "\\ud805\\udf2a", "\\ud805\\udf2b",
     "\\ud806\\udc2f", "\\ud806\\udc30", "\\ud806\\udc31", "\\ud806\\udc32", "\\ud806\\udc33",
     "\\ud806\\udc34", "\\ud806\\udc35", "\\ud806\\udc36", "\\ud806\\udc37", "\\ud806\\udc39",
     "\\ud806\\udc3a", "\\ud806\\udd3b", "\\ud806\\udd3c", "\\ud806\\udd3e", "\\ud806\\udd43",
     "\\ud806\\uddd4", "\\ud806\\uddd5", "\\ud806\\uddd6", "\\ud806\\uddd7", "\\ud806\\uddda",
     "\\ud806\\udddb", "\\ud806\\udde0", "\\ud806\\ude01", "\\ud806\\ude02", "\\ud806\\ude03",
     "\\ud806\\ude04", "\\ud806\\ude05", "\\ud806\\ude06", "\\ud806\\ude07", "\\ud806\\ude08",
     "\\ud806\\ude09", "\\ud806\\ude0a", "\\ud806\\ude33", "\\ud806\\ude34", "\\ud806\\ude35",
     "\\ud806\\ude36", "\\ud806\\ude37", "\\ud806\\ude38", "\\ud806\\ude3b", "\\ud806\\ude3c",
     "\\ud806\\ude3d", "\\ud806\\ude3e", "\\ud806\\ude47", "\\ud806\\ude51", "\\ud806\\ude52",
     "\\ud806\\ude53", "\\ud806\\ude54", "\\ud806\\ude55", "\\ud806\\ude56", "\\ud806\\ude59",
     "\\ud806\\ude5a", "\\ud806\\ude5b", "\\ud806\\ude8a", "\\ud806\\ude8b", "\\ud806\\ude8c",
     "\\ud806\\ude8d", "\\ud806\\ude8e", "\\ud806\\ude8f", "\\ud806\\ude90", "\\ud806\\ude91",
     "\\ud806\\ude92", "\\ud806\\ude93", "\\ud806\\ude94", "\\ud806\\ude95", "\\ud806\\ude96",
     "\\ud806\\ude98", "\\ud806\\ude99", "\\ud807\\udc30", "\\ud807\\udc31", "\\ud807\\udc32",
     "\\ud807\\udc33", "\\ud807\\udc34", "\\ud807\\udc35", "\\ud807\\udc36", "\\ud807\\udc38",
     "\\ud807\\udc39", "\\ud807\\udc3a", "\\ud807\\udc3b", "\\ud807\\udc3c", "\\ud807\\udc3d",
     "\\ud807\\udc3f", "\\ud807\\udc92", "\\ud807\\udc93", "\\ud807\\udc94", "\\ud807\\udc95",
     "\\ud807\\udc96", "\\ud807\\udc97", "\\ud807\\udc98", "\\ud807\\udc99", "\\ud807\\udc9a",
     "\\ud807\\udc9b", "\\ud807\\udc9c", "\\ud807\\udc9d", "\\ud807\\udc9e", "\\ud807\\udc9f",
     "\\ud807\\udca0", "\\ud807\\udca1", "\\ud807\\udca2", "\\ud807\\udca3", "\\ud807\\udca4",
     "\\ud807\\udca5", "\\ud807\\udca6", "\\ud807\\udca7", "\\ud807\\udcaa", "\\ud807\\udcab",
     "\\ud807\\udcac", "\\ud807\\udcad", "\\ud807\\udcae", "\\ud807\\udcaf", "\\ud807\\udcb0",
     "\\ud807\\udcb2", "\\ud807\\udcb3", "\\ud807\\udcb5", "\\ud807\\udcb6", "\\ud807\\udd31",
     "\\ud807\\udd32", "\\ud807\\udd33", "\\ud807\\udd34", "\\ud807\\udd35", "\\ud807\\udd36",
     "\\ud807\\udd3a", "\\ud807\\udd3c", "\\ud807\\udd3d", "\\ud807\\udd3f", "\\ud807\\udd40",
     "\\ud807\\udd41", "\\ud807\\udd42", "\\ud807\\udd43", "\\ud807\\udd44", "\\ud807\\udd45",
     "\\ud807\\udd47", "\\ud807\\udd90", "\\ud807\\udd91", "\\ud807\\udd95", "\\ud807\\udd97",
     "\\ud807\\udef3", "\\ud807\\udef4", "\\ud80d\\udc30", "\\ud80d\\udc31", "\\ud80d\\udc32",
     "\\ud80d\\udc33", "\\ud80d\\udc34", "\\ud80d\\udc35", "\\ud80d\\udc36", "\\ud80d\\udc37",
     "\\ud80d\\udc38", "\\ud81a\\udef0", "\\ud81a\\udef1", "\\ud81a\\udef2", "\\ud81a\\udef3",
     "\\ud81a\\udef4", "\\ud81a\\udf30", "\\ud81a\\udf31", "\\ud81a\\udf32", "\\ud81a\\udf33",
     "\\ud81a\\udf34", "\\ud81a\\udf35", "\\ud81a\\udf36", "\\ud81a\\udf40", "\\ud81a\\udf41",
     "\\ud81a\\udf42", "\\ud81a\\udf43", "\\ud81b\\udf4f", "\\ud81b\\udf8f", "\\ud81b\\udf90",
     "\\ud81b\\udf91", "\\ud81b\\udf92", "\\ud81b\\udf93", "\\ud81b\\udf94", "\\ud81b\\udf95",
     "\\ud81b\\udf96", "\\ud81b\\udf97", "\\ud81b\\udf98", "\\ud81b\\udf99", "\\ud81b\\udf9a",
     "\\ud81b\\udf9b", "\\ud81b\\udf9c", "\\ud81b\\udf9d", "\\ud81b\\udf9e", "\\ud81b\\udf9f",
     "\\ud81b\\udfe0", "\\ud81b\\udfe1", "\\ud81b\\udfe3", "\\ud81b\\udfe4", "\\ud82b\\udff0",
     "\\ud82b\\udff1", "\\ud82b\\udff2", "\\ud82b\\udff3", "\\ud82b\\udff5", "\\ud82b\\udff6",
     "\\ud82b\\udff7", "\\ud82b\\udff8", "\\ud82b\\udff9", "\\ud82b\\udffa", "\\ud82b\\udffb",
     "\\ud82b\\udffd", "\\ud82b\\udffe", "\\ud82f\\udc9d", "\\ud82f\\udc9e", "\\ud82f\\udca0",
     "\\ud82f\\udca1", "\\ud82f\\udca2", "\\ud82f\\udca3", "\\ud833\\udf00", "\\ud833\\udf01",
     "\\ud833\\udf02", "\\ud833\\udf03", "\\ud833\\udf04", "\\ud833\\udf05", "\\ud833\\udf06",
     "\\ud833\\udf07", "\\ud833\\udf08", "\\ud833\\udf09", "\\ud833\\udf0a", "\\ud833\\udf0b",
     "\\ud833\\udf0c", "\\ud833\\udf0d", "\\ud833\\udf0e", "\\ud833\\udf0f", "\\ud833\\udf10",
     "\\ud833\\udf11", "\\ud833\\udf12", "\\ud833\\udf13", "\\ud833\\udf14", "\\ud833\\udf15",
     "\\ud833\\udf16", "\\ud833\\udf17", "\\ud833\\udf18", "\\ud833\\udf19", "\\ud833\\udf1a",
     "\\ud833\\udf1b", "\\ud833\\udf1c", "\\ud833\\udf1d", "\\ud833\\udf1e", "\\ud833\\udf1f",
     "\\ud833\\udf20", "\\ud833\\udf21", "\\ud833\\udf22", "\\ud833\\udf23", "\\ud833\\udf24",
     "\\ud833\\udf25", "\\ud833\\udf26", "\\ud833\\udf27", "\\ud833\\udf28", "\\ud833\\udf29",
     "\\ud833\\udf2a", "\\ud833\\udf2b", "\\ud833\\udf2c", "\\ud833\\udf2d", "\\ud833\\udf30",
     "\\ud833\\udf31", "\\ud833\\udf32", "\\ud833\\udf33", "\\ud833\\udf34", "\\ud833\\udf35",
     "\\ud833\\udf36", "\\ud833\\udf37", "\\ud833\\udf38", "\\ud833\\udf39", "\\ud833\\udf3a",
     "\\ud833\\udf3b", "\\ud833\\udf3c", "\\ud833\\udf3d", "\\ud833\\udf3e", "\\ud833\\udf3f",
     "\\ud833\\udf40", "\\ud833\\udf41", "\\ud833\\udf42", "\\ud833\\udf43", "\\ud833\\udf44",
     "\\ud833\\udf45", "\\ud833\\udf46", "\\ud834\\udd67", "\\ud834\\udd68", "\\ud834\\udd69",
     "\\ud834\\udd73", "\\ud834\\udd74", "\\ud834\\udd75", "\\ud834\\udd76", "\\ud834\\udd77",
     "\\ud834\\udd78", "\\ud834\\udd79", "\\ud834\\udd7a", "\\ud834\\udd7b", "\\ud834\\udd7c",
     "\\ud834\\udd7d", "\\ud834\\udd7e", "\\ud834\\udd7f", "\\ud834\\udd80", "\\ud834\\udd81",
     "\\ud834\\udd82", "\\ud834\\udd85", "\\ud834\\udd86", "\\ud834\\udd87", "\\ud834\\udd88",
     "\\ud834\\udd89", "\\ud834\\udd8a", "\\ud834\\udd8b", "\\ud834\\uddaa", "\\ud834\\uddab",
     "\\ud834\\uddac", "\\ud834\\uddad", "\\ud834\\ude42", "\\ud834\\ude43", "\\ud834\\ude44",
     "\\ud836\\ude00", "\\ud836\\ude01", "\\ud836\\ude02", "\\ud836\\ude03", "\\ud836\\ude04",
     "\\ud836\\ude05", "\\ud836\\ude06", "\\ud836\\ude07", "\\ud836\\ude08", "\\ud836\\ude09",
     "\\ud836\\ude0a", "\\ud836\\ude0b", "\\ud836\\ude0c", "\\ud836\\ude0d", "\\ud836\\ude0e",
     "\\ud836\\ude0f", "\\ud836\\ude10", "\\ud836\\ude11", "\\ud836\\ude12", "\\ud836\\ude13",
     "\\ud836\\ude14", "\\ud836\\ude15", "\\ud836\\ude16", "\\ud836\\ude17", "\\ud836\\ude18",
     "\\ud836\\ude19", "\\ud836\\ude1a", "\\ud836\\ude1b", "\\ud836\\ude1c", "\\ud836\\ude1d",
     "\\ud836\\ude1e", "\\ud836\\ude1f", "\\ud836\\ude20", "\\ud836\\ude21", "\\ud836\\ude22",
     "\\ud836\\ude23", "\\ud836\\ude24", "\\ud836\\ude25", "\\ud836\\ude26", "\\ud836\\ude27",
     "\\ud836\\ude28", "\\ud836\\ude29", "\\ud836\\ude2a", "\\ud836\\ude2b", "\\ud836\\ude2c",
     "\\ud836\\ude2d", "\\ud836\\ude2e", "\\ud836\\ude2f", "\\ud836\\ude30", "\\ud836\\ude31",
     "\\ud836\\ude32", "\\ud836\\ude33", "\\ud836\\ude34", "\\ud836\\ude35", "\\ud836\\ude36",
     "\\ud836\\ude3b", "\\ud836\\ude3c", "\\ud836\\ude3d", "\\ud836\\ude3e", "\\ud836\\ude3f",
     "\\ud836\\ude40", "\\ud836\\ude41", "\\ud836\\ude42", "\\ud836\\ude43", "\\ud836\\ude44",
     "\\ud836\\ude45", "\\ud836\\ude46", "\\ud836\\ude47", "\\ud836\\ude48", "\\ud836\\ude49",
     "\\ud836\\ude4a", "\\ud836\\ude4b", "\\ud836\\ude4c", "\\ud836\\ude4d", "\\ud836\\ude4e",
     "\\ud836\\ude4f", "\\ud836\\ude50", "\\ud836\\ude51", "\\ud836\\ude52", "\\ud836\\ude53",
     "\\ud836\\ude54", "\\ud836\\ude55", "\\ud836\\ude56", "\\ud836\\ude57", "\\ud836\\ude58",
     "\\ud836\\ude59", "\\ud836\\ude5a", "\\ud836\\ude5b", "\\ud836\\ude5c", "\\ud836\\ude5d",
     "\\ud836\\ude5e", "\\ud836\\ude5f", "\\ud836\\ude60", "\\ud836\\ude61", "\\ud836\\ude62",
     "\\ud836\\ude63", "\\ud836\\ude64", "\\ud836\\ude65", "\\ud836\\ude66", "\\ud836\\ude67",
     "\\ud836\\ude68", "\\ud836\\ude69", "\\ud836\\ude6a", "\\ud836\\ude6b", "\\ud836\\ude6c",
     "\\ud836\\ude75", "\\ud836\\ude84", "\\ud836\\ude9b", "\\ud836\\ude9c", "\\ud836\\ude9d",
     "\\ud836\\ude9e", "\\ud836\\ude9f", "\\ud836\\udea1", "\\ud836\\udea2", "\\ud836\\udea3",
     "\\ud836\\udea4", "\\ud836\\udea5", "\\ud836\\udea6", "\\ud836\\udea7", "\\ud836\\udea8",
     "\\ud836\\udea9", "\\ud836\\udeaa", "\\ud836\\udeab", "\\ud836\\udeac", "\\ud836\\udead",
     "\\ud836\\udeae", "\\ud836\\udeaf", "\\ud838\\udc00", "\\ud838\\udc01", "\\ud838\\udc02",
     "\\ud838\\udc03", "\\ud838\\udc04", "\\ud838\\udc05", "\\ud838\\udc06", "\\ud838\\udc08",
     "\\ud838\\udc09", "\\ud838\\udc0a", "\\ud838\\udc0b", "\\ud838\\udc0c", "\\ud838\\udc0d",
     "\\ud838\\udc0e", "\\ud838\\udc0f", "\\ud838\\udc10", "\\ud838\\udc11", "\\ud838\\udc12",
     "\\ud838\\udc13", "\\ud838\\udc14", "\\ud838\\udc15", "\\ud838\\udc16", "\\ud838\\udc17",
     "\\ud838\\udc18", "\\ud838\\udc1b", "\\ud838\\udc1c", "\\ud838\\udc1d", "\\ud838\\udc1e",
     "\\ud838\\udc1f", "\\ud838\\udc20", "\\ud838\\udc21", "\\ud838\\udc23", "\\ud838\\udc24",
     "\\ud838\\udc26", "\\ud838\\udc27", "\\ud838\\udc28", "\\ud838\\udc29", "\\ud838\\udc2a",
     "\\ud838\\udd30", "\\ud838\\udd31", "\\ud838\\udd32", "\\ud838\\udd33", "\\ud838\\udd34",
     "\\ud838\\udd35", "\\ud838\\udd36", "\\ud838\\udd37", "\\ud838\\udd38", "\\ud838\\udd39",
     "\\ud838\\udd3a", "\\ud838\\udd3b", "\\ud838\\udd3c", "\\ud838\\udd3d", "\\ud838\\udeae",
     "\\ud838\\udeec", "\\ud838\\udeed", "\\ud838\\udeee", "\\ud838\\udeef", "\\ud83a\\udcd0",
     "\\ud83a\\udcd1", "\\ud83a\\udcd2", "\\ud83a\\udcd3", "\\ud83a\\udcd4", "\\ud83a\\udcd5",
     "\\ud83a\\udcd6", "\\ud83a\\udd44", "\\ud83a\\udd45", "\\ud83a\\udd46", "\\ud83a\\udd47",
     "\\ud83a\\udd48", "\\ud83a\\udd49", "\\ud83a\\udd4a", "\\ud83a\\udd4b", "\\ud83c\\udffb",
     "\\ud83c\\udffc", "\\ud83c\\udffd", "\\ud83c\\udffe", "\\ud83c\\udfff", "\\udb40\\udc01",
     "\\udb40\\udc20", "\\udb40\\udc21", "\\udb40\\udc22", "\\udb40\\udc23", "\\udb40\\udc24",
     "\\udb40\\udc25", "\\udb40\\udc26", "\\udb40\\udc27", "\\udb40\\udc28", "\\udb40\\udc29",
     "\\udb40\\udc2a", "\\udb40\\udc2b", "\\udb40\\udc2c", "\\udb40\\udc2d", "\\udb40\\udc2e",
     "\\udb40\\udc2f", "\\udb40\\udc30", "\\udb40\\udc31", "\\udb40\\udc32", "\\udb40\\udc33",
     "\\udb40\\udc34", "\\udb40\\udc35", "\\udb40\\udc36", "\\udb40\\udc37", "\\udb40\\udc38",
     "\\udb40\\udc39", "\\udb40\\udc3a", "\\udb40\\udc3b", "\\udb40\\udc3c", "\\udb40\\udc3d",
     "\\udb40\\udc3e", "\\udb40\\udc3f", "\\udb40\\udc40", "\\udb40\\udc41", "\\udb40\\udc42",
     "\\udb40\\udc43", "\\udb40\\udc44", "\\udb40\\udc45", "\\udb40\\udc46", "\\udb40\\udc47",
     "\\udb40\\udc48", "\\udb40\\udc49", "\\udb40\\udc4a", "\\udb40\\udc4b", "\\udb40\\udc4c",
     "\\udb40\\udc4d", "\\udb40\\udc4e", "\\udb40\\udc4f", "\\udb40\\udc50", "\\udb40\\udc51",
     "\\udb40\\udc52", "\\udb40\\udc53", "\\udb40\\udc54", "\\udb40\\udc55", "\\udb40\\udc56",
     "\\udb40\\udc57", "\\udb40\\udc58", "\\udb40\\udc59", "\\udb40\\udc5a", "\\udb40\\udc5b",
     "\\udb40\\udc5c", "\\udb40\\udc5d", "\\udb40\\udc5e", "\\udb40\\udc5f", "\\udb40\\udc60",
     "\\udb40\\udc61", "\\udb40\\udc62", "\\udb40\\udc63", "\\udb40\\udc64", "\\udb40\\udc65",
     "\\udb40\\udc66", "\\udb40\\udc67", "\\udb40\\udc68", "\\udb40\\udc69", "\\udb40\\udc6a",
     "\\udb40\\udc6b", "\\udb40\\udc6c", "\\udb40\\udc6d", "\\udb40\\udc6e", "\\udb40\\udc6f",
     "\\udb40\\udc70", "\\udb40\\udc71", "\\udb40\\udc72", "\\udb40\\udc73", "\\udb40\\udc74",
     "\\udb40\\udc75", "\\udb40\\udc76", "\\udb40\\udc77", "\\udb40\\udc78", "\\udb40\\udc79",
     "\\udb40\\udc7a", "\\udb40\\udc7b", "\\udb40\\udc7c", "\\udb40\\udc7d", "\\udb40\\udc7e",
     "\\udb40\\udc7f", "\\udb40\\udd00", "\\udb40\\udd01", "\\udb40\\udd02", "\\udb40\\udd03",
     "\\udb40\\udd04", "\\udb40\\udd05", "\\udb40\\udd06", "\\udb40\\udd07", "\\udb40\\udd08",
     "\\udb40\\udd09", "\\udb40\\udd0a", "\\udb40\\udd0b", "\\udb40\\udd0c", "\\udb40\\udd0d",
     "\\udb40\\udd0e", "\\udb40\\udd0f", "\\udb40\\udd10", "\\udb40\\udd11", "\\udb40\\udd12",
     "\\udb40\\udd13", "\\udb40\\udd14", "\\udb40\\udd15", "\\udb40\\udd16", "\\udb40\\udd17",
     "\\udb40\\udd18", "\\udb40\\udd19", "\\udb40\\udd1a", "\\udb40\\udd1b", "\\udb40\\udd1c",
     "\\udb40\\udd1d", "\\udb40\\udd1e", "\\udb40\\udd1f", "\\udb40\\udd20", "\\udb40\\udd21",
     "\\udb40\\udd22", "\\udb40\\udd23", "\\udb40\\udd24", "\\udb40\\udd25", "\\udb40\\udd26",
     "\\udb40\\udd27", "\\udb40\\udd28", "\\udb40\\udd29", "\\udb40\\udd2a", "\\udb40\\udd2b",
     "\\udb40\\udd2c", "\\udb40\\udd2d", "\\udb40\\udd2e", "\\udb40\\udd2f", "\\udb40\\udd30",
     "\\udb40\\udd31", "\\udb40\\udd32", "\\udb40\\udd33", "\\udb40\\udd34", "\\udb40\\udd35",
     "\\udb40\\udd36", "\\udb40\\udd37", "\\udb40\\udd38", "\\udb40\\udd39", "\\udb40\\udd3a",
     "\\udb40\\udd3b", "\\udb40\\udd3c", "\\udb40\\udd3d", "\\udb40\\udd3e", "\\udb40\\udd3f",
     "\\udb40\\udd40", "\\udb40\\udd41", "\\udb40\\udd42", "\\udb40\\udd43", "\\udb40\\udd44",
     "\\udb40\\udd45", "\\udb40\\udd46", "\\udb40\\udd47", "\\udb40\\udd48", "\\udb40\\udd49",
     "\\udb40\\udd4a", "\\udb40\\udd4b", "\\udb40\\udd4c", "\\udb40\\udd4d", "\\udb40\\udd4e",
     "\\udb40\\udd4f", "\\udb40\\udd50", "\\udb40\\udd51", "\\udb40\\udd52", "\\udb40\\udd53",
     "\\udb40\\udd54", "\\udb40\\udd55", "\\udb40\\udd56", "\\udb40\\udd57", "\\udb40\\udd58",
     "\\udb40\\udd59", "\\udb40\\udd5a", "\\udb40\\udd5b", "\\udb40\\udd5c", "\\udb40\\udd5d",
     "\\udb40\\udd5e", "\\udb40\\udd5f", "\\udb40\\udd60", "\\udb40\\udd61", "\\udb40\\udd62",
     "\\udb40\\udd63", "\\udb40\\udd64", "\\udb40\\udd65", "\\udb40\\udd66", "\\udb40\\udd67",
     "\\udb40\\udd68", "\\udb40\\udd69", "\\udb40\\udd6a", "\\udb40\\udd6b", "\\udb40\\udd6c",
     "\\udb40\\udd6d", "\\udb40\\udd6e", "\\udb40\\udd6f", "\\udb40\\udd70", "\\udb40\\udd71",
     "\\udb40\\udd72", "\\udb40\\udd73", "\\udb40\\udd74", "\\udb40\\udd75", "\\udb40\\udd76",
     "\\udb40\\udd77", "\\udb40\\udd78", "\\udb40\\udd79", "\\udb40\\udd7a", "\\udb40\\udd7b",
     "\\udb40\\udd7c", "\\udb40\\udd7d", "\\udb40\\udd7e", "\\udb40\\udd7f", "\\udb40\\udd80",
     "\\udb40\\udd81", "\\udb40\\udd82", "\\udb40\\udd83", "\\udb40\\udd84", "\\udb40\\udd85",
     "\\udb40\\udd86", "\\udb40\\udd87", "\\udb40\\udd88", "\\udb40\\udd89", "\\udb40\\udd8a",
     "\\udb40\\udd8b", "\\udb40\\udd8c", "\\udb40\\udd8d", "\\udb40\\udd8e", "\\udb40\\udd8f",
     "\\udb40\\udd90", "\\udb40\\udd91", "\\udb40\\udd92", "\\udb40\\udd93", "\\udb40\\udd94",
     "\\udb40\\udd95", "\\udb40\\udd96", "\\udb40\\udd97", "\\udb40\\udd98", "\\udb40\\udd99",
     "\\udb40\\udd9a", "\\udb40\\udd9b", "\\udb40\\udd9c", "\\udb40\\udd9d", "\\udb40\\udd9e",
     "\\udb40\\udd9f", "\\udb40\\udda0", "\\udb40\\udda1", "\\udb40\\udda2", "\\udb40\\udda3",
     "\\udb40\\udda4", "\\udb40\\udda5", "\\udb40\\udda6", "\\udb40\\udda7", "\\udb40\\udda8",
     "\\udb40\\udda9", "\\udb40\\uddaa", "\\udb40\\uddab", "\\udb40\\uddac", "\\udb40\\uddad",
     "\\udb40\\uddae", "\\udb40\\uddaf", "\\udb40\\uddb0", "\\udb40\\uddb1", "\\udb40\\uddb2",
     "\\udb40\\uddb3", "\\udb40\\uddb4", "\\udb40\\uddb5", "\\udb40\\uddb6", "\\udb40\\uddb7",
     "\\udb40\\uddb8", "\\udb40\\uddb9", "\\udb40\\uddba", "\\udb40\\uddbb", "\\udb40\\uddbc",
     "\\udb40\\uddbd", "\\udb40\\uddbe", "\\udb40\\uddbf", "\\udb40\\uddc0", "\\udb40\\uddc1",
     "\\udb40\\uddc2", "\\udb40\\uddc3", "\\udb40\\uddc4", "\\udb40\\uddc5", "\\udb40\\uddc6",
     "\\udb40\\uddc7", "\\udb40\\uddc8", "\\udb40\\uddc9", "\\udb40\\uddca", "\\udb40\\uddcb",
     "\\udb40\\uddcc", "\\udb40\\uddcd", "\\udb40\\uddce", "\\udb40\\uddcf", "\\udb40\\uddd0",
     "\\udb40\\uddd1", "\\udb40\\uddd2", "\\udb40\\uddd3", "\\udb40\\uddd4", "\\udb40\\uddd5",
     "\\udb40\\uddd6", "\\udb40\\uddd7", "\\udb40\\uddd8", "\\udb40\\uddd9", "\\udb40\\uddda",
     "\\udb40\\udddb", "\\udb40\\udddc", "\\udb40\\udddd", "\\udb40\\uddde", "\\udb40\\udddf",
     "\\udb40\\udde0", "\\udb40\\udde1", "\\udb40\\udde2", "\\udb40\\udde3", "\\udb40\\udde4",
     "\\udb40\\udde5", "\\udb40\\udde6", "\\udb40\\udde7", "\\udb40\\udde8", "\\udb40\\udde9",
     "\\udb40\\uddea", "\\udb40\\uddeb", "\\udb40\\uddec", "\\udb40\\udded", "\\udb40\\uddee",
     "\\udb40\\uddef"}

\* the cased characters that are not skipped
CasedNotIgnorable ==
    {"A", "B", "C", "D", "E", "F", "G", "H", "I", "J", "K", "L", "M", "N", "O", "P", "Q", "R", "S",
     "T", "U", "V", "W", "X", "Y", "Z", "a", "b", "c", "d", "e", "f", "g", "h", "i", "j", "k", "l",
     "m", "n", "o", "p", "q", "r", "s", "t", "u", "v", "w", "x", "y", "z", "\\u00aa", "\\u00b5",
     "\\u00ba", "\\u00c0", "\\u00c1", "\\u00c2", "\\u00c3", "\\u00c4", "\\u00c5", "\\u00c6",
     "\\u00c7", "\\u00c8", "\\u00c9", "\\u00ca", "\\u00cb", "\\u00cc", "\\u00cd", "\\u00ce",
     "\\u00cf", "\\u00d0", "\\u00d1", "\\u00d2", "\\u00d3", "\\u00d4", "\\u00d5", "\\u00d6",
     "\\u00d8", "\\u00d9", "\\u00da", "\\u00db", "\\u00dc", "\\u00dd", "\\u00de", "\\u00df",
     "\\u00e0", "\\u00e1", "\\u00e2", "\\u00e3", "\\u00e4", "\\u00e5", "\\u00e6", "\\u00e7",
     "\\u00e8", "\\u00e9", "\\u00ea", "\\u00eb", "\\u00ec", "\\u00ed", "\\u00ee", "\\u00ef",
     "\\u00f0", "\\u00f1", "\\u00f2", "\\u00f3", "\\u00f4", "\\u00f5", "\\u00f6", "\\u00f8",
     "\\u00f9", "\\u00fa", "\\u00fb", "\\u00fc", "\\u00fd", "\\u00fe", "\\u00ff", "\\u0100",
     "\\u0101", "\\u0102", "\\u0103", "\\u0104", "\\u0105", "\\u0106", "\\u0107", "\\u0108",
     "\\u0109", "\\u010a", "\\u010b", "\\u010c", "\\u010d", "\\u010e", "\\u010f", "\\u0110",
     "\\u0111", "\\u0112", "\\u0113", "\\u0114", "\\u0115", "\\u0116", "\\u0117", "\\u0118",
     "\\u0119", "\\u011a", "\\u011b", "\\u011c", "\\u011d", "\\u011e", "\\u011f", "\\u0120",
     "\\u0121", "\\u0122", "\\u0123", "\\u0124", "\\u0125", "\\u0126", "\\u0127", "\\u0128",
     "\\u0129", "\\u012a", "\\u012b", "\\u012c", "\\u012d", "\\u012e", "\\u012f", "\\u0130",
     "\\u0131", "\\u0132", "\\u0133", "\\u0134", "\\u0135", "\\u0136", "\\u0137", "\\u0138",
     "\\u0139", "\\u013a", "\\u013b", "\\u013c", "\\u013d", "\\u013e", "\\u013f", "\\u0140",
     "\\u0141", "\\u0142", "\\u0143", "\\u0144", "\\u0145", "\\u0146", "\\u0147", "\\u0148",
     "\\u0149", "\\u014a", "\\u014b", "\\u014c", "\\u014d", "\\u014e", "\\u014f", "\\u0150",
     "\\u0151", "\\u0152", "\\u0153", "\\u0154", "\\u0155", "\\u0156", "\\u0157", "\\u0158",
     "\\u0159", "\\u015a", "\\u015b", "\\u015c", "\\u015d", "\\u015e", "\\u015f", "\\u0160",
     "\\u0161", "\\u0162", "\\u0163", "\\u0164", "\\u0165", "\\u0166", "\\u0167", "\\u0168",
     "\\u0169", "\\u016a", "\\u016b", "\\u016c", "\\u016d", "\\u016e", "\\u016f", "\\u0170",
     "\\u0171", "\\u0172", "\\u0173", "\\u0174", "\\u0175", "\\u0176", "\\u0177", "\\u0178",
     "\\u0179", "\\u017a", "\\u017b", "\\u017c", "\\u017d", "\\u017e", "\\u017f", "\\u0180",
     "\\u0181", "\\u0182", "\\u0183", "\\u0184", "\\u0185", "\\u0186", "\\u0187", "\\u0188",
     "\\u0189", "\\u018a", "\\u018b", "\\u018c", "\\u018d", "\\u018e", "\\u018f", "\\u0190",
     "\\u0191", "\\u0192", "\\u0193", "\\u0194", "\\u0195", "\\u0196", "\\u0197", "\\u0198",
     "\\u0199", "\\u019a", "\\u019b", "\\u019c", "\\u019d", "\\u019e", "\\u019f", "\\u01a0",
     "\\u01a1", "\\u01a2", "\\u01a3", "\\u01a4", "\\u01a5", "\\u01a6", "\\u01a7", "\\u01a8",
     "\\u01a9", "\\u01aa", "\\u01ab", "\\u01ac", "\\u01ad", "\\u01ae", "\\u01af", "\\u01b0",
     "\\u01b1", "\\u01b2", "\\u01b3", "\\u01b4", "\\u01b5", "\\u01b6", "\\u01b7", "\\u01b8",
     "\\u01b9", "\\u01ba", "\\u01bc", "\\u01bd", "\\u01be", "\\u01bf", "\\u01c4", "\\u01c5",
     "\\u01c6", "\\u01c7", "\\u01c8", "\\u01c9", "\\u01ca", "\\u01cb", "\\u01cc", "\\u01cd",
     "\\u01ce", "\\u01cf", "\\u01d0", "\\u01d1", "\\u01d2", "\\u01d3", "\\u01d4", "\\u01d5",
     "\\u01d6", "\\u01d7", "\\u01d8", "\\u01d9", "\\u01da", "\\u01db", "\\u01dc", "\\u01dd",
     "\\u01de", "\\u01df", "\\u01e0", "\\u01e1", "\\u01e2", "\\u01e3", "\\u01e4", "\\u01e5",
     "\\u01e6", "\\u01e7", "\\u01e8", "\\u01e9", "\\u01ea", "\\u01eb", "\\u01ec", "\\u01ed",
     "\\u01ee", "\\u01ef", "\\u01f0", "\\u01f1", "\\u01f2", "\\u01f3", "\\u01f4", "\\u01f5",
     "\\u01f6", "\\u01f7", "\\u01f8", "\\u01f9", "\\u01fa", "\\u01fb", "\\u01fc", "\\u01fd",
     "\\u01fe", "\\u01ff", "\\u0200", "\\u0201", "\\u0202", "\\u0203", "\\u0204", "\\u0205",
     "\\u0206", "\\u0207", "\\u0208", "\\u0209", "\\u020a", "\\u020b", "\\u020c", "\\u020d",
     "\\u020e", "\\u020f", "\\u0210", "\\u0211", "\\u0212", "\\u0213", "\\u0214", "\\u0215",
     "\\u0216", "\\u0217", "\\u0218", "\\u0219", "\\u021a", "\\u021b", "\\u021c", "\\u021d",
     "\\u021e", "\\u021f", "\\u0220", "\\u0221", "\\u0222", "\\u0223", "\\u0224", "\\u0225",
     "\\u0226", "\\u0227", "\\u0228", "\\u0229", "\\u022a", "\\u022b", "\\u022c", "\\u022d",
     "\\u022e", "\\u022f", "\\u0230", "\\u0231", "\\u0232", "\\u0233", "\\u0234", "\\u0235",
     "\\u0236", "\\u0237", "\\u0238", "\\u0239", "\\u023a", "\\u023b", "\\u023c", "\\u023d",
     "\\u023e", "\\u023f", "\\u0240", "\\u0241", "\\u0242", "\\u0243", "\\u0244", "\\u0245",
     "\\u0246", "\\u0247", "\\u0248", "\\u0249", "\\u024a", "\\u024b", "\\u024c", "\\u024d",
     "\\u024e", "\\u024f", "\\u0250", "\\u0251", "\\u0252", "\\u0253", "\\u0254", "\\u0255",
     "\\u0256", "\\u0257", "\\u0258", "\\u0259", "\\u025a", "\\u025b", "\\u025c", "\\u025d",
     "\\u025e", "\\u025f", "\\u0260", "\\u0261", "\\u0262", "\\u0263", "\\u0264", "\\u0265",
     "\\u0266", "\\u0267", "\\u0268", "\\u0269", "\\u026a", "\\u026b", "\\u026c", "\\u026d",
     "\\u026e", "\\u026f", "\\u0270", "\\u0271", "\\u0272", "\\u0273", "\\u0274", "\\u0275",
     "\\u0276", "\\u0277", "\\u0278", "\\u0279", "\\u027a", "\\u027b", "\\u027c", "\\u027d",
     "\\u027e", "\\u027f", "\\u0280", "\\u0281", "\\u0282", "\\u0283", "\\u0284", "\\u0285",
     "\\u0286", "\\u0287", "\\u0288", "\\u0289", "\\u028a", "\\u028b", "\\u028c", "\\u028d",
     "\\u028e", "\\u028f", "\\u0290", "\\u0291", "\\u0292", "\\u0293", "\\u0295", "\\u0296",
     "\\u0297", "\\u0298", "\\u0299", "\\u029a", "\\u029b", "\\u029c", "\\u029d", "\\u029e",
     "\\u029f", "\\u02a0", "\\u02a1", "\\u02a2", "\\u02a3", "\\u02a4", "\\u02a5", "\\u02a6",
     "\\u02a7", "\\u02a8", "\\u02a9", "\\u02aa", "\\u02ab", "\\u02ac", "\\u02ad", "\\u02ae",
     "\\u02af", "\\u0370", "\\u0371", "\\u0372", "\\u0373", "\\u0376", "\\u0377", "\\u037b",
     "\\u037c", "\\u037d", "\\u037f", "\\u0386", "\\u0388", "\\u0389", "\\u038a", "\\u038c",
     "\\u038e", "\\u038f", "\\u0390", "\\u0391", "\\u0392", "\\u0393", "\\u0394", "\\u0395",
     "\\u0396", "\\u0397", "\\u0398", "\\u0399", "\\u039a", "\\u039b", "\\u039c", "\\u039d",
     "\\u039e", "\\u039f", "\\u03a0", "\\u03a1", "\\u03a3", "\\u03a4", "\\u03a5", "\\u03a6",
     "\\u03a7", "\\u03a8", "\\u03a9", "\\u03aa", "\\u03ab", "\\u03ac", "\\u03ad", "\\u03ae",
     "\\u03af", "\\u03b0", "\\u03b1", "\\u03b2", "\\u03b3", "\\u03b4", "\\u03b5", "\\u03b6",
     "\\u03b7", "\\u03b8", "\\u03b9", "\\u03ba", "\\u03bb", "\\u03bc", "\\u03bd", "\\u03be",
     "\\u03bf", "\\u03c0", "\\u03c1", "\\u03c2", "\\u03c3", "\\u03c4", "\\u03c5", "\\u03c6",
     "\\u03c7", "\\u03c8", "\\u03c9", "\\u03ca", "\\u03cb", "\\u03cc", "\\u03cd", "\\u03ce",
     "\\u03cf", "\\u03d0", "\\u03d1", "\\u03d2", "\\u03d3", "\\u03d4", "\\u03d5", "\\u03d6",
     "\\u03d7", "\\u03d8", "\\u03d9", "\\u03da", "\\u03db", "\\u03dc", "\\u03dd", "\\u03de",
     "\\u03df", "\\u03e0", "\\u03e1", "\\u03e2", "\\u03e3", "\\u03e4", "\\u03e5", "\\u03e6",
     "\\u03e7", "\\u03e8", "\\u03e9", "\\u03ea", "\\u03eb", "\\u03ec", "\\u03ed", "\\u03ee",
     "\\u03ef", "\\u03f0", "\\u03f1", "\\u03f2", "\\u03f3", "\\u03f4", "\\u03f5", "\\u03f7",
     "\\u03f8", "\\u03f9", "\\u03fa", "\\u03fb", "\\u03fc", "\\u03fd", "\\u03fe", "\\u03ff",
     "\\u0400", "\\u0401", "\\u0402", "\\u0403", "\\u0404", "\\u0405", "\\u0406", "\\u0407",
     "\\u0408", "\\u0409", "\\u040a", "\\u040b", "\\u040c", "\\u040d", "\\u040e", "\\u040f",
     "\\u0410", "\\u0411", "\\u0412", "\\u0413", "\\u0414", "\\u0415", "\\u0416", "\\u0417",
     "\\u0418", "\\u0419", "\\u041a", "\\u041b", "\\u041c", "\\u041d", "\\u041e", "\\u041f",
     "\\u0420", "\\u0421", "\\u0422", "\\u0423", "\\u0424", "\\u0425", "\\u0426", "\\u0427",
     "\\u0428", "\\u0429", "\\u042a", "\\u042b", "\\u042c", "\\u042d", "\\u042e", "\\u042f",
     "\\u0430", "\\u0431", "\\u0432", "\\u0433", "\\u0434", "\\u0435", "\\u0436", "\\u0437",
     "\\u0438", "\\u0439", "\\u043a", "\\u043b", "\\u043c", "\\u043d", "\\u043e", "\\u043f",
     "\\u0440", "\\u0441", "\\u0442", "\\u0443", "\\u0444", "\\u0445", "\\u0446", "\\u0447",
     "\\u0448", "\\u0449", "\\u044a", "\\u044b", "\\u044c", "\\u044d", "\\u044e", "\\u044f",
     "\\u0450", "\\u0451", "\\u0452", "\\u0453", "\\u0454", "\\u0455", "\\u0456", "\\u0457",
     "\\u0458", "\\u0459", "\\u045a", "\\u045b", "\\u045c", "\\u045d", "\\u045e", "\\u045f",
     "\\u0460", "\\u0461", "\\u0462", "\\u0463", "\\u0464", "\\u0465", "\\u0466", "\\u0467",
     "\\u0468", "\\u0469", "\\u046a", "\\u046b", "\\u046c", "\\u046d", "\\u046e", "\\u046f",
     "\\u0470", "\\u0471", "\\u0472", "\\u0473", "\\u0474", "\\u0475", "\\u0476", "\\u0477",
     "\\u0478", "\\u0479", "\\u047a", "\\u047b", "\\u047c", "\\u047d", "\\u047e", "\\u047f",
     "\\u0480", "\\u0481", "\\u048a", "\\u048b", "\\u048c", "\\u048d", "\\u048e", "\\u048f",
     "\\u0490", "\\u0491", "\\u0492", "\\u0493", "\\u0494", "\\u0495", "\\u0496", "\\u0497",
     "\\u0498", "\\u0499", "\\u049a", "\\u049b", "\\u049c", "\\u049d", "\\u049e", "\\u049f",
     "\\u04a0", "\\u04a1", "\\u04a2", "\\u04a3", "\\u04a4", "\\u04a5", "\\u04a6", "\\u04a7",
     "\\u04a8", "\\u04a9", "\\u04aa", "\\u04ab", "\\u04ac", "\\u04ad", "\\u04ae", "\\u04af",
     "\\u04b0", "\\u04b1", "\\u04b2", "\\u04b3", "\\u04b4", "\\u04b5", "\\u04b6", "\\u04b7",
     "\\u04b8", "\\u04b9", "\\u04ba", "\\u04bb", "\\u04bc", "\\u04bd", "\\u04be", "\\u04bf",
     "\\u04c0", "\\u04c1", "\\u04c2", "\\u04c3", "\\u04c4", "\\u04c5", "\\u04c6", "\\u04c7",
     "\\u04c8", "\\u04c9", "\\u04ca", "\\u04cb", "\\u04cc", "\\u04cd", "\\u04ce", "\\u04cf",
     "\\u04d0", "\\u04d1", "\\u04d2", "\\u04d3", "\\u04d4", "\\u04d5", "\\u04d6", "\\u04d7",
     "\\u04d8", "\\u04d9", "\\u04da", "\\u04db", "\\u04dc", "\\u04dd", "\\u04de", "\\u04df",
     "\\u04e0", "\\u04e1", "\\u04e2", "\\u04e3", "\\u04e4", "\\u04e5", "\\u04e6", "\\u04e7",
     "\\u04e8", "\\u04e9", "\\u04ea", "\\u04eb", "\\u04ec", "\\u04ed", "\\u04ee", "\\u04ef",
     "\\u04f0", "\\u04f1", "\\u04f2", "\\u04f3", "\\u04f4", "\\u04f5", "\\u04f6", "\\u04f7",
     "\\u04f8", "\\u04f9", "\\u04fa", "\\u04fb", "\\u04fc", "\\u04fd", "\\u04fe", "\\u04ff",
     "\\u0500", "\\u0501", "\\u0502", "\\u0503", "\\u0504", "\\u0505", "\\u0506", "\\u0507",
     "\\u0508", "\\u0509", "\\u050a", "\\u050b", "\\u050c", "\\u050d", "\\u050e", "\\u050f",
     "\\u0510", "\\u0511", "\\u0512", "\\u0513", "\\u0514", "\\u0515", "\\u0516", "\\u0517",
     "\\u0518", "\\u0519", "\\u051a", "\\u051b", "\\u051c", "\\u051d", "\\u051e", "\\u051f",
     "\\u0520", "\\u0521", "\\u0522", "\\u0523", "\\u0524", "\\u0525", "\\u0526", "\\u0527",
     "\\u0528", "\\u0529", "\\u052a", "\\u052b", "\\u052c", "\\u052d", "\\u052e", "\\u052f",
     "\\u0531", "\\u0532", "\\u0533", "\\u0534", "\\u0535", "\\u0536", "\\u0537", "\\u0538",
     "\\u0539", "\\u053a", "\\u053b", "\\u053c", "\\u053d", "\\u053e", "\\u053f", "\\u0540",
     "\\u0541", "\\u0542", "\\u0543", "\\u0544", "\\u0545", "\\u0546", "\\u0547", "\\u0548",
     "\\u0549", "\\u054a", "\\u054b", "\\u054c", "\\u054d", "\\u054e", "\\u054f", "\\u0550",
     "\\u0551", "\\u0552", "\\u0553", "\\u0554", "\\u0555", "\\u0556", "\\u0560", "\\u0561",
     "\\u0562", "\\u0563", "\\u0564", "\\u0565", "\\u0566", "\\u0567", "\\u0568", "\\u0569",
     "\\u056a", "\\u056b", "\\u056c", "\\u056d", "\\u056e", "\\u056f", "\\u0570", "\\u0571",
     "\\u0572", "\\u0573", "\\u0574", "\\u0575", "\\u0576", "\\u0577", "\\u0578", "\\u0579",
     "\\u057a", "\\u057b", "\\u057c", "\\u057d", "\\u057e", "\\u057f", "\\u0580", "\\u0581",
     "\\u0582", "\\u0583", "\\u0584", "\\u0585", "\\u0586", "\\u0587", "\\u0588", "\\u10a0",
     "\\u10a1", "\\u10a2", "\\u10a3", "\\u10a4", "\\u10a5", "\\u10a6", "\\u10a7", "\\u10a8",
     "\\u10a9", "\\u10aa", "\\u10ab", "\\u10ac", "\\u10ad", "\\u10ae", "\\u10af", "\\u10b0",
     "\\u10b1", "\\u10b2", "\\u10b3", "\\u10b4", "\\u10b5", "\\u10b6", "\\u10b7", "\\u10b8",
     "\\u10b9", "\\u10ba", "\\u10bb", "\\u10bc", "\\u10bd", "\\u10be", "\\u10bf", "\\u10c0",
     "\\u10c1", "\\u10c2", "\\u10c3", "\\u10c4", "\\u10c5", "\\u10c7", "\\u10cd", "\\u10d0",
     "\\u10d1", "\\u10d2", "\\u10d3", "\\u10d4", "\\u10d5", "\\u10d6", "\\u10d7", "\\u10d8",
     "\\u10d9", "\\u10da", "\\u10db", "\\u10dc", "\\u10dd", "\\u10de", "\\u10df", "\\u10e0",
     "\\u10e1", "\\u10e2", "\\u10e3", "\\u10e4", "\\u10e5", "\\u10e6", "\\u10e7", "\\u10e8",
     "\\u10e9", "\\u10ea", "\\u10eb", "\\u10ec", "\\u10ed", "\\u10ee", "\\u10ef", "\\u10f0",
     "\\u10f1", "\\u10f2", "\\u10f3", "\\u10f4", "\\u10f5", "\\u10f6", "\\u10f7", "\\u10f8",
     "\\u10f9", "\\u10fa", "\\u10fd", "\\u10fe", "\\u10ff", "\\u13a0", "\\u13a1", "\\u13a2",
     "\\u13a3", "\\u13a4", "\\u13a5", "\\u13a6", "\\u13a7", "\\u13a8", "\\u13a9", "\\u13aa",
     "\\u13ab", "\\u13ac", "\\u13ad", "\\u13ae", "\\u13af", "\\u13b0", "\\u13b1", "\\u13b2",
     "\\u13b3", "\\u13b4", "\\u13b5", "\\u13b6", "\\u13b7", "\\u13b8", "\\u13b9", "\\u13ba",
     "\\u13bb", "\\u13bc", "\\u13bd", "\\u13be", "\\u13bf", "\\u13c0", "\\u13c1", "\\u13c2",
     "\\u13c3", "\\u13c4", "\\u13c5", "\\u13c6", "\\u13c7", "\\u13c8", "\\u13c9", "\\u13ca",
     "\\u13cb", "\\u13cc", "\\u13cd", "\\u13ce", "\\u13cf", "\\u13d0", "\\u13d1", "\\u13d2",
     "\\u13d3", "\\u13d4", "\\u13d5", "\\u13d6", "\\u13d7", "\\u13d8", "\\u13d9", "\\u13da",
     "\\u13db", "\\u13dc", "\\u13dd", "\\u13de", "\\u13df", "\\u13e0", "\\u13e1", "\\u13e2",
     "\\u13e3", "\\u13e4", "\\u13e5", "\\u13e6", "\\u13e7", "\\u13e8", "\\u13e9", "\\u13ea",
     "\\u13eb", "\\u13ec", "\\u13ed", "\\u13ee", "\\u13ef", "\\u13f0", "\\u13f1", "\\u13f2",
     "\\u13f3", "\\u13f4", "\\u13f5", "\\u13f8", "\\u13f9", "\\u13fa", "\\u13fb", "\\u13fc",
     "\\u13fd", "\\u1c80", "\\u1c81", "\\u1c82", "\\u1c83", "\\u1c84", "\\u1c85", "\\u1c86",
     "\\u1c87", "\\u1c88", "\\u1c90", "\\u1c91", "\\u1c92", "\\u1c93", "\\u1c94", "\\u1c95",
     "\\u1c96", "\\u1c97", "\\u1c98", "\\u1c99", "\\u1c9a", "\\u1c9b", "\\u1c9c", "\\u1c9d",
     "\\u1c9e", "\\u1c9f", "\\u1ca0", "\\u1ca1", "\\u1ca2", "\\u1ca3", "\\u1ca4", "\\u1ca5",
     "\\u1ca6", "\\u1ca7", "\\u1ca8", "\\u1ca9", "\\u1caa", "\\u1cab", "\\u1cac", "\\u1cad",
     "\\u1cae", "\\u1caf", "\\u1cb0", "\\u1cb1", "\\u1cb2", "\\u1cb3", "\\u1cb4", "\\u1cb5",
     "\\u1cb6", "\\u1cb7", "\\u1cb8", "\\u1cb9", "\\u1cba", "\\u1cbd", "\\u1cbe", "\\u1cbf",
     "\\u1d00", "\\u1d01", "\\u1d02", "\\u1d03", "\\u1d04", "\\u1d05", "\\u1d06", "\\u1d07",
     "\\u1d08", "\\u1d09", "\\u1d0a", "\\u1d0b", "\\u1d0c", "\\u1d0d", "\\u1d0e", "\\u1d0f",
     "\\u1d10", "\\u1d11", "\\u1d12", "\\u1d13", "\\u1d14", "\\u1d15", "\\u1d16", "\\u1d17",
     "\\u1d18", "\\u1d19", "\\u1d1a", "\\u1d1b", "\\u1d1c", "\\u1d1d", "\\u1d1e", "\\u1d1f",
     "\\u1d20", "\\u1d21", "\\u1d22", "\\u1d23", "\\u1d24", "\\u1d25", "\\u1d26", "\\u1d27",
     "\\u1d28", "\\u1d29", "\\u1d2a", "\\u1d2b", "\\u1d6b", "\\u1d6c", "\\u1d6d", "\\u1d6e",
     "\\u1d6f", "\\u1d70", "\\u1d71", "\\u1d72", "\\u1d73", "\\u1d74", "\\u1d75", "\\u1d76",
     "\\u1d77", "\\u1d79", "\\u1d7a", "\\u1d7b", "\\u1d7c", "\\u1d7d", "\\u1d7e", "\\u1d7f",
     "\\u1d80", "\\u1d81", "\\u1d82", "\\u1d83", "\\u1d84", "\\u1d85", "\\u1d86", "\\u1d87",
     "\\u1d88", "\\u1d89", "\\u1d8a", "\\u1d8b", "\\u1d8c", "\\u1d8d", "\\u1d8e", "\\u1d8f",
     "\\u1d90", "\\u1d91", "\\u1d92", "\\u1d93", "\\u1d94", "\\u1d95", "\\u1d96", "\\u1d97",
     "\\u1d98", "\\u1d99", "\\u1d9a", "\\u1e00", "\\u1e01", "\\u1e02", "\\u1e03", "\\u1e04",
     "\\u1e05", "\\u1e06", "\\u1e07", "\\u1e08", "\\u1e09", "\\u1e0a", "\\u1e0b", "\\u1e0c",
     "\\u1e0d", "\\u1e0e", "\\u1e0f", "\\u1e10", "\\u1e11", "\\u1e12", "\\u1e13", "\\u1e14",
     "\\u1e15", "\\u1e16", "\\u1e17", "\\u1e18", "\\u1e19", "\\u1e1a", "\\u1e1b", "\\u1e1c",
     "\\u1e1d", "\\u1e1e", "\\u1e1f", "\\u1e20", "\\u1e21", "\\u1e22", "\\u1e23", "\\u1e24",
     "\\u1e25", "\\u1e26", "\\u1e27", "\\u1e28", "\\u1e29", "\\u1e2a", "\\u1e2b", "\\u1e2c",
     "\\u1e2d", "\\u1e2e", "\\u1e2f", "\\u1e30", "\\u1e31", "\\u1e32", "\\u1e33", "\\u1e34",
     "\\u1e35", "\\u1e36", "\\u1e37", "\\u1e38", "\\u1e39", "\\u1e3a", "\\u1e3b", "\\u1e3c",
     "\\u1e3d", "\\u1e3e", "\\u1e3f", "\\u1e40", "\\u1e41", "\\u1e42", "\\u1e43", "\\u1e44",
     "\\u1e45", "\\u1e46", "\\u1e47", "\\u1e48", "\\u1e49", "\\u1e4a", "\\u1e4b", "\\u1e4c",
     "\\u1e4d", "\\u1e4e", "\\u1e4f", "\\u1e50", "\\u1e51", "\\u1e52", "\\u1e53", "\\u1e54",
     "\\u1e55", "\\u1e56", "\\u1e57", "\\u1e58", "\\u1e59", "\\u1e5a", "\\u1e5b", "\\u1e5c",
     "\\u1e5d", "\\u1e5e", "\\u1e5f", "\\u1e60", "\\u1e61", "\\u1e62", "\\u1e63", "\\u1e64",
     "\\u1e65", "\\u1e66", "\\u1e67", "\\u1e68", "\\u1e69", "\\u1e6a", "\\u1e6b", "\\u1e6c",
     "\\u1e6d", "\\u1e6e", "\\u1e6f", "\\u1e70", "\\u1e71", "\\u1e72", "\\u1e73", "\\u1e74",
     "\\u1e75", "\\u1e76", "\\u1e77", "\\u1e78", "\\u1e79", "\\u1e7a", "\\u1e7b", "\\u1e7c",
     "\\u1e7d", "\\u1e7e", "\\u1e7f", "\\u1e80", "\\u1e81", "\\u1e82", "\\u1e83", "\\u1e84",
     "\\u1e85", "\\u1e86", "\\u1e87", "\\u1e88", "\\u1e89", "\\u1e8a", "\\u1e8b", "\\u1e8c",
     "\\u1e8d", "\\u1e8e", "\\u1e8f", "\\u1e90", "\\u1e91", "\\u1e92", "\\u1e93", "\\u1e94",
     "\\u1e95", "\\u1e96", "\\u1e97", "\\u1e98", "\\u1e99", "\\u1e9a", "\\u1e9b", "\\u1e9c",
     "\\u1e9d", "\\u1e9e", "\\u1e9f", "\\u1ea0", "\\u1ea1", "\\u1ea2", "\\u1ea3", "\\u1ea4",
     "\\u1ea5", "\\u1ea6", "\\u1ea7", "\\u1ea8", "\\u1ea9", "\\u1eaa", "\\u1eab", "\\u1eac",
     "\\u1ead", "\\u1eae", "\\u1eaf", "\\u1eb0", "\\u1eb1", "\\u1eb2", "\\u1eb3", "\\u1eb4",
     "\\u1eb5", "\\u1eb6", "\\u1eb7", "\\u1eb8", "\\u1eb9", "\\u1eba", "\\u1ebb", "\\u1ebc",
     "\\u1ebd", "\\u1ebe", "\\u1ebf", "\\u1ec0", "\\u1ec1", "\\u1ec2", "\\u1ec3", "\\u1ec4",
     "\\u1ec5", "\\u1ec6", "\\u1ec7", "\\u1ec8", "\\u1ec9", "\\u1eca", "\\u1ecb", "\\u1ecc",
     "\\u1ecd", "\\u1ece", "\\u1ecf", "\\u1ed0", "\\u1ed1", "\\u1ed2", "\\u1ed3", "\\u1ed4",
     "\\u1ed5", "\\u1ed6", "\\u1ed7", "\\u1ed8", "\\u1ed9", "\\u1eda", "\\u1edb", "\\u1edc",
     "\\u1edd", "\\u1ede", "\\u1edf", "\\u1ee0", "\\u1ee1", "\\u1ee2", "\\u1ee3", "\\u1ee4",
     "\\u1ee5", "\\u1ee6", "\\u1ee7", "\\u1ee8", "\\u1ee9", "\\u1eea", "\\u1eeb", "\\u1eec",
     "\\u1eed", "\\u1eee", "\\u1eef", "\\u1ef0", "\\u1ef1", "\\u1ef2", "\\u1ef3", "\\u1ef4",
     "\\u1ef5", "\\u1ef6", "\\u1ef7", "\\u1ef8", "\\u1ef9", "\\u1efa", "\\u1efb", "\\u1efc",
     "\\u1efd", "\\u1efe", "\\u1eff", "\\u1f00", "\\u1f01", "\\u1f02", "\\u1f03", "\\u1f04",
     "\\u1f05", "\\u1f06", "\\u1f07", "\\u1f08", "\\u1f09", "\\u1f0a", "\\u1f0b", "\\u1f0c",
     "\\u1f0d", "\\u1f0e", "\\u1f0f", "\\u1f10", "\\u1f11", "\\u1f12", "\\u1f13", "\\u1f14",
     "\\u1f15", "\\u1f18", "\\u1f19", "\\u1f1a", "\\u1f1b", "\\u1f1c", "\\u1f1d", "\\u1f20",
     "\\u1f21", "\\u1f22", "\\u1f23", "\\u1f24", "\\u1f25", "\\u1f26", "\\u1f27", "\\u1f28",
     "\\u1f29", "\\u1f2a", "\\u1f2b", "\\u1f2c", "\\u1f2d", "\\u1f2e", "\\u1f2f", "\\u1f30",
     "\\u1f31", "\\u1f32", "\\u1f33", "\\u1f34", "\\u1f35", "\\u1f36", "\\u1f37", "\\u1f38",
     "\\u1f39", "\\u1f3a", "\\u1f3b", "\\u1f3c", "\\u1f3d", "\\u1f3e", "\\u1f3f", "\\u1f40",
     "\\u1f41", "\\u1f42", "\\u1f43", "\\u1f44", "\\u1f45", "\\u1f48", "\\u1f49", "\\u1f4a",
     "\\u1f4b", "\\u1f4c", "\\u1f4d", "\\u1f50", "\\u1f51", "\\u1f52", "\\u1f53", "\\u1f54",
     "\\u1f55", "\\u1f56", "\\u1f57", "\\u1f59", "\\u1f5b", "\\u1f5d", "\\u1f5f", "\\u1f60",
     "\\u1f61", "\\u1f62", "\\u1f63", "\\u1f64", "\\u1f65", "\\u1f66", "\\u1f67", "\\u1f68",
     "\\u1f69", "\\u1f6a", "\\u1f6b", "\\u1f6c", "\\u1f6d", "\\u1f6e", "\\u1f6f", "\\u1f70",
     "\\u1f71", "\\u1f72", "\\u1f73", "\\u1f74", "\\u1f75", "\\u1f76", "\\u1f77", "\\u1f78",
     "\\u1f79", "\\u1f7a", "\\u1f7b", "\\u1f7c", "\\u1f7d", "\\u1f80", "\\u1f81", "\\u1f82",
     "\\u1f83", "\\u1f84", "\\u1f85", "\\u1f86", "\\u1f87", "\\u1f88", "\\u1f89", "\\u1f8a",
     "\\u1f8b", "\\u1f8c", "\\u1f8d", "\\u1f8e", "\\u1f8f", "\\u1f90", "\\u1f91", "\\u1f92",
     "\\u1f93", "\\u1f94", "\\u1f95", "\\u1f96", "\\u1f97", "\\u1f98", "\\u1f99", "\\u1f9a",
     "\\u1f9b", "\\u1f9c", "\\u1f9d", "\\u1f9e", "\\u1f9f", "\\u1fa0", "\\u1fa1", "\\u1fa2",
     "\\u1fa3", "\\u1fa4", "\\u1fa5", "\\u1fa6", "\\u1fa7", "\\u1fa8", "\\u1fa9", "\\u1faa",
     "\\u1fab", "\\u1fac", "\\u1fad", "\\u1fae", "\\u1faf", "\\u1fb0", "\\u1fb1", "\\u1fb2",
     "\\u1fb3", "\\u1fb4", "\\u1fb6", "\\u1fb7", "\\u1fb8", "\\u1fb9", "\\u1fba", "\\u1fbb",
     "\\u1fbc", "\\u1fbe", "\\u1fc2", "\\u1fc3", "\\u1fc4", "\\u1fc6", "\\u1fc7", "\\u1fc8",
     "\\u1fc9", "\\u1fca", "\\u1fcb", "\\u1fcc", "\\u1fd0", "\\u1fd1", "\\u1fd2", "\\u1fd3",
     "\\u1fd6", "\\u1fd7", "\\u1fd8", "\\u1fd9", "\\u1fda", "\\u1fdb", "\\u1fe0", "\\u1fe1",
     "\\u1fe2", "\\u1fe3", "\\u1fe4", "\\u1fe5", "\\u1fe6", "\\u1fe7", "\\u1fe8", "\\u1fe9",
     "\\u1fea", "\\u1feb", "\\u1fec", "\\u1ff2", "\\u1ff3", "\\u1ff4", "\\u1ff6", "\\u1ff7",
     "\\u1ff8", "\\u1ff9", "\\u1ffa", "\\u1ffb", "\\u1ffc", "\\u2102", "\\u2107", "\\u210a",
     "\\u210b", "\\u210c", "\\u210d", "\\u210e", "\\u210f", "\\u2110", "\\u2111", "\\u2112",
     "\\u2113", "\\u2115", "\\u2119", "\\u211a", "\\u211b", "\\u211c", "\\u211d", "\\u2124",
     "\\u2126", "\\u2128", "\\u212a", "\\u212b", "\\u212c", "\\u212d", "\\u212f", "\\u2130",
     "\\u2131", "\\u2132", "\\u2133", "\\u2134", "\\u2139", "\\u213c", "\\u213d", "\\u213e",
     "\\u213f", "\\u2145", "\\u2146", "\\u2147", "\\u2148", "\\u2149", "\\u214e", "\\u2160",
     "\\u2161", "\\u2162", "\\u2163", "\\u2164", "\\u2165", "\\u2166", "\\u2167", "\\u2168",
     "\\u2169", "\\u216a", "\\u216b", "\\u216c", "\\u216d", "\\u216e", "\\u216f", "\\u2170",
     "\\u2171", "\\u2172", "\\u2173", "\\u2174", "\\u2175", "\\u2176", "\\u2177", "\\u2178",
     "\\u2179", "\\u217a", "\\u217b", "\\u217c", "\\u217d", "\\u217e", "\\u217f", "\\u2183",
     "\\u2184", "\\u24b6", "\\u24b7", "\\u24b8", "\\u24b9", "\\u24ba", "\\u24bb", "\\u24bc",
     "\\u24bd", "\\u24be", "\\u24bf", "\\u24c0", "\\u24c1", "\\u24c2", "\\u24c3", "\\u24c4",
     "\\u24c5", "\\u24c6", "\\u24c7", "\\u24c8", "\\u24c9", "\\u24ca", "\\u24cb", "\\u24cc",
     "\\u24cd", "\\u24ce", "\\u24cf", "\\u24d0", "\\u24d1", "\\u24d2", "\\u24d3", "\\u24d4",
     "\\u24d5", "\\u24d6", "\\u24d7", "\\u24d8", "\\u24d9", "\\u24da", "\\u24db", "\\u24dc",
     "\\u24dd", "\\u24de", "\\u24df", "\\u24e0", "\\u24e1", "\\u24e2", "\\u24e3", "\\u24e4",
     "\\u24e5", "\\u24e6", "\\u24e7", "\\u24e8", "\\u24e9", "\\u2c00", "\\u2c01", "\\u2c02",
     "\\u2c03", "\\u2c04", "\\u2c05", "\\u2c06", "\\u2c07", "\\u2c08", "\\u2c09", "\\u2c0a",
     "\\u2c0b", "\\u2c0c", "\\u2c0d", "\\u2c0e", "\\u2c0f", "\\u2c10", "\\u2c11", "\\u2c12",
     "\\u2c13", "\\u2c14", "\\u2c15", "\\u2c16", "\\u2c17", "\\u2c18", "\\u2c19", "\\u2c1a",
     "\\u2c1b", "\\u2c1c", "\\u2c1d", "\\u2c1e", "\\u2c1f", "\\u2c20", "\\u2c21", "\\u2c22",
     "\\u2c23", "\\u2c24", "\\u2c25", "\\u2c26", "\\u2c27", "\\u2c28", "\\u2c29", "\\u2c2a",
     "\\u2c2b", "\\u2c2c", "\\u2c2d", "\\u2c2e", "\\u2c2f", "\\u2c30", "\\u2c31", "\\u2c32",
     "\\u2c33", "\\u2c34", "\\u2c35", "\\u2c36", "\\u2c37", "\\u2c38", "\\u2c39", "\\u2c3a",
     "\\u2c3b", "\\u2c3c", "\\u2c3d", "\\u2c3e", "\\u2c3f", "\\u2c40", "\\u2c41", "\\u2c42",
     "\\u2c43", "\\u2c44", "\\u2c45", "\\u2c46", "\\u2c47", "\\u2c48", "\\u2c49", "\\u2c4a",
     "\\u2c4b", "\\u2c4c", "\\u2c4d", "\\u2c4e", "\\u2c4f", "\\u2c50", "\\u2c51", "\\u2c52",
     "\\u2c53", "\\u2c54", "\\u2c55", "\\u2c56", "\\u2c57", "\\u2c58", "\\u2c59", "\\u2c5a",
     "\\u2c5b", "\\u2c5c", "\\u2c5d", "\\u2c5e", "\\u2c5f", "\\u2c60", "\\u2c61", "\\u2c62",
     "\\u2c63", "\\u2c64", "\\u2c65", "\\u2c66", "\\u2c67", "\\u2c68", "\\u2c69", "\\u2c6a",
     "\\u2c6b", "\\u2c6c", "\\u2c6d", "\\u2c6e", "\\u2c6f", "\\u2c70", "\\u2c71", "\\u2c72",
     "\\u2c73", "\\u2c74", "\\u2c75", "\\u2c76", "\\u2c77", "\\u2c78", "\\u2c79", "\\u2c7a",
     "\\u2c7b", "\\u2c7e", "\\u2c7f", "\\u2c80", "\\u2c81", "\\u2c82", "\\u2c83", "\\u2c84",
     "\\u2c85", "\\u2c86", "\\u2c87", "\\u2c88", "\\u2c89", "\\u2c8a", "\\u2c8b", "\\u2c8c",
     "\\u2c8d", "\\u2c8e", "\\u2c8f", "\\u2c90", "\\u2c91", "\\u2c92", "\\u2c93", "\\u2c94",
     "\\u2c95", "\\u2c96", "\\u2c97", "\\u2c98", "\\u2c99", "\\u2c9a", "\\u2c9b", "\\u2c9c",
     "\\u2c9d", "\\u2c9e", "\\u2c9f", "\\u2ca0", "\\u2ca1", "\\u2ca2", "\\u2ca3", "\\u2ca4",
     "\\u2ca5", "\\u2ca6", "\\u2ca7", "\\u2ca8", "\\u2ca9", "\\u2caa", "\\u2cab", "\\u2cac",
     "\\u2cad", "\\u2cae", "\\u2caf", "\\u2cb0", "\\u2cb1", "\\u2cb2", "\\u2cb3", "\\u2cb4",
     "\\u2cb5", "\\u2cb6", "\\u2cb7", "\\u2cb8", "\\u2cb9", "\\u2cba", "\\u2cbb", "\\u2cbc",
     "\\u2cbd", "\\u2cbe", "\\u2cbf", "\\u2cc0", "\\u2cc1", "\\u2cc2", "\\u2cc3", "\\u2cc4",
     "\\u2cc5", "\\u2cc6", "\\u2cc7", "\\u2cc8", "\\u2cc9", "\\u2cca", "\\u2ccb", "\\u2ccc",
     "\\u2ccd", "\\u2cce", "\\u2ccf", "\\u2cd0", "\\u2cd1", "\\u2cd2", "\\u2cd3", "\\u2cd4",
     "\\u2cd5", "\\u2cd6", "\\u2cd7", "\\u2cd8", "\\u2cd9", "\\u2cda", "\\u2cdb", "\\u2cdc",
     "\\u2cdd", "\\u2cde", "\\u2cdf", "\\u2ce0", "\\u2ce1", "\\u2ce2", "\\u2ce3", "\\u2ce4",
     "\\u2ceb", "\\u2cec", "\\u2ced", "\\u2cee", "\\u2cf2", "\\u2cf3", "\\u2d00", "\\u2d01",
     "\\u2d02", "\\u2d03", "\\u2d04", "\\u2d05", "\\u2d06", "\\u2d07", "\\u2d08", "\\u2d09",
     "\\u2d0a", "\\u2d0b", "\\u2d0c", "\\u2d0d", "\\u2d0e", "\\u2d0f", "\\u2d10", "\\u2d11",
     "\\u2d12", "\\u2d13", "\\u2d14", "\\u2d15", "\\u2d16", "\\u2d17", "\\u2d18", "\\u2d19",
     "\\u2d1a", "\\u2d1b", "\\u2d1c", "\\u2d1d", "\\u2d1e", "\\u2d1f", "\\u2d20", "\\u2d21",
     "\\u2d22", "\\u2d23", "\\u2d24", "\\u2d25", "\\u2d27", "\\u2d2d", "\\ua640", "\\ua641",
     "\\ua642", "\\ua643", "\\ua644", "\\ua645", "\\ua646", "\\ua647", "\\ua648", "\\ua649",
     "\\ua64a", "\\ua64b", "\\ua64c", "\\ua64d", "\\ua64e", "\\ua64f", "\\ua650", "\\ua651",
     "\\ua652", "\\ua653", "\\ua654", "\\ua655", "\\ua656", "\\ua657", "\\ua658", "\\ua659",
     "\\ua65a", "\\ua65b", "\\ua65c", "\\ua65d", "\\ua65e", "\\ua65f", "\\ua660", "\\ua661",
     "\\ua662", "\\ua663", "\\ua664", "\\ua665", "\\ua666", "\\ua667", "\\ua668", "\\ua669",
     "\\ua66a", "\\ua66b", "\\ua66c", "\\ua66d", "\\ua680", "\\ua681", "\\ua682", "\\ua683",
     "\\ua684", "\\ua685", "\\ua686", "\\ua687", "\\ua688", "\\ua689", "\\ua68a", "\\ua68b",
     "\\ua68c", "\\ua68d", "\\ua68e", "\\ua68f", "\\ua690", "\\ua691", "\\ua692", "\\ua693",
     "\\ua694", "\\ua695", "\\ua696", "\\ua697", "\\ua698", "\\ua699", "\\ua69a", "\\ua69b",
     "\\ua722", "\\ua723", "\\ua724", "\\ua725", "\\ua726", "\\ua727", "\\ua728", "\\ua729",
     "\\ua72a", "\\ua72b", "\\ua72c", "\\ua72d", "\\ua72e", "\\ua72f", "\\ua730", "\\ua731",
     "\\ua732", "\\ua733", "\\ua734", "\\ua735", "\\ua736", "\\ua737", "\\ua738", "\\ua739",
     "\\ua73a", "\\ua73b", "\\ua73c", "\\ua73d", "\\ua73e", "\\ua73f", "\\ua740", "\\ua741",
     "\\ua742", "\\ua743", "\\ua744", "\\ua745", "\\ua746", "\\ua747", "\\ua748", "\\ua749",
     "\\ua74a", "\\ua74b", "\\ua74c", "\\ua74d", "\\ua74e", "\\ua74f", "\\ua750", "\\ua751",
     "\\ua752", "\\ua753", "\\ua754", "\\ua755", "\\ua756", "\\ua757", "\\ua758", "\\ua759",
     "\\ua75a", "\\ua75b", "\\ua75c", "\\ua75d", "\\ua75e", "\\ua75f", "\\ua760", "\\ua761",
     "\\ua762", "\\ua763", "\\ua764", "\\ua765", "\\ua766", "\\ua767", "\\ua768", "\\ua769",
     "\\ua76a", "\\ua76b", "\\ua76c", "\\ua76d", "\\ua76e", "\\ua76f", "\\ua771", "\\ua772",
     "\\ua773", "\\ua774", "\\ua775", "\\ua776", "\\ua777", "\\ua778", "\\ua779", "\\ua77a",
     "\\ua77b", "\\ua77c", "\\ua77d", "\\ua77e", "\\ua77f", "\\ua780", "\\ua781", "\\ua782",
     "\\ua783", "\\ua784", "\\ua785", "\\ua786", "\\ua787", "\\ua78b", "\\ua78c", "\\ua78d",
     "\\ua78e", "\\ua790", "\\ua791", "\\ua792", "\\ua793", "\\ua794", "\\ua795", "\\ua796",
     "\\ua797", "\\ua798", "\\ua799", "\\ua79a", "\\ua79b", "\\ua79c", "\\ua79d", "\\ua79e",
     "\\ua79f", "\\ua7a0", "\\ua7a1", "\\ua7a2", "\\ua7a3", "\\ua7a4", "\\ua7a5", "\\ua7a6",
     "\\ua7a7", "\\ua7a8", "\\ua7a9", "\\ua7aa", "\\ua7ab", "\\ua7ac", "\\ua7ad", "\\ua7ae",
     "\\ua7af", "\\ua7b0", "\\ua7b1", "\\ua7b2", "\\ua7b3", "\\ua7b4", "\\ua7b5", "\\ua7b6",
     "\\ua7b7", "\\ua7b8", "\\ua7b9", "\\ua7ba", "\\ua7bb", "\\ua7bc", "\\ua7bd", "\\ua7be",
     "\\ua7bf", "\\ua7c0", "\\ua7c1", "\\ua7c2", "\\ua7c3", "\\ua7c4", "\\ua7c5", "\\ua7c6",
     "\\ua7c7", "\\ua7c8", "\\ua7c9", "\\ua7ca", "\\ua7d0", "\\ua7d1", "\\ua7d3", "\\ua7d5",
     "\\ua7d6", "\\ua7d7", "\\ua7d8", "\\ua7d9", "\\ua7f5", "\\ua7f6", "\\ua7fa", "\\uab30",
     "\\uab31", "\\uab32", "\\uab33", "\\uab34", "\\uab35", "\\uab36", "\\uab37", "\\uab38",
     "\\uab39", "\\uab3a", "\\uab3b", "\\uab3c", "\\uab3d", "\\uab3e", "\\uab3f", "\\uab40",
     "\\uab41", "\\uab42", "\\uab43", "\\uab44", "\\uab45", "\\uab46", "\\uab47", "\\uab48",
     "\\uab49", "\\uab4a", "\\uab4b", "\\uab4c", "\\uab4d", "\\uab4e", "\\uab4f", "\\uab50",
     "\\uab51", "\\uab52", "\\uab53", "\\uab54", "\\uab55", "\\uab56", "\\uab57", "\\uab58",
     "\\uab59", "\\uab5a", "\\uab60", "\\uab61", "\\uab62", "\\uab63", "\\uab64", "\\uab65",
     "\\uab66", "\\uab67", "\\uab68", "\\uab70", "\\uab71", "\\uab72", "\\uab73", "\\uab74",
     "\\uab75", "\\uab76", "\\uab77", "\\uab78", "\\uab79", "\\uab7a", "\\uab7b", "\\uab7c",
     "\\uab7d", "\\uab7e", "\\uab7f", "\\uab80", "\\uab81", "\\uab82", "\\uab83", "\\uab84",
     "\\uab85", "\\uab86", "\\uab87", "\\uab88", "\\uab89", "\\uab8a", "\\uab8b", "\\uab8c",
     "\\uab8d", "\\uab8e", "\\uab8f", "\\uab90", "\\uab91", "\\uab92", "\\uab93", "\\uab94",
     "\\uab95", "\\uab96", "\\uab97", "\\uab98", "\\uab99", "\\uab9a", "\\uab9b", "\\uab9c",
     "\\uab9d", "\\uab9e", "\\uab9f", "\\uaba0", "\\uaba1", "\\uaba2", "\\uaba3", "\\uaba4",
     "\\uaba5", "\\uaba6", "\\uaba7", "\\uaba8", "\\uaba9", "\\uabaa", "\\uabab", "\\uabac",
     "\\uabad", "\\uabae", "\\uabaf", "\\uabb0", "\\uabb1", "\\uabb2", "\\uabb3", "\\uabb4",
     "\\uabb5", "\\uabb6", "\\uabb7", "\\uabb8", "\\uabb9", "\\uabba", "\\uabbb", "\\uabbc",
     "\\uabbd", "\\uabbe", "\\uabbf", "\\ufb00", "\\ufb01", "\\ufb02", "\\ufb03", "\\ufb04",
     "\\ufb05", "\\ufb06", "\\ufb13", "\\ufb14", "\\ufb15", "\\ufb16", "\\ufb17", "\\uff21",
     "\\uff22", "\\uff23", "\\uff24", "\\uff25", "\\uff26", "\\uff27", "\\uff28", "\\uff29",
     "\\uff2a", "\\uff2b", "\\uff2c", "\\uff2d", "\\uff2e", "\\uff2f", "\\uff30", "\\uff31",
     "\\uff32", "\\uff33", "\\uff34", "\\uff35", "\\uff36", "\\uff37", "\\uff38", "\\uff39",
     "\\uff3a", "\\uff41", "\\uff42", "\\uff43", "\\uff44", "\\uff45", "\\uff46", "\\uff47",
     "\\uff48", "\\uff49", "\\uff4a", "\\uff4b", "\\uff4c", "\\uff4d", "\\uff4e", "\\uff4f",
     "\\uff50", "\\uff51", "\\uff52", "\\uff53", "\\uff54", "\\uff55", "\\uff56", "\\uff57",
     "\\uff58", "\\uff59", "\\uff5a", "\\ud801\\udc00", "\\ud801\\udc01", "\\ud801\\udc02",
     "\\ud801\\udc03", "\\ud801\\udc04", "\\ud801\\udc05", "\\ud801\\udc06", "\\ud801\\udc07",
     "\\ud801\\udc08", "\\ud801\\udc09", "\\ud801\\udc0a", "\\ud801\\udc0b", "\\ud801\\udc0c",
     "\\ud801\\udc0d", "\\ud801\\udc0e", "\\ud801\\udc0f", "\\ud801\\udc10", "\\ud801\\udc11",
     "\\ud801\\udc12", "\\ud801\\udc13", "\\ud801\\udc14", "\\ud801\\udc15", "\\ud801\\udc16",
     "\\ud801\\udc17", "\\ud801\\udc18", "\\ud801\\udc19", "\\ud801\\udc1a", "\\ud801\\udc1b",
     "\\ud801\\udc1c", "\\ud801\\udc1d", "\\ud801\\udc1e", "\\ud801\\udc1f", "\\ud801\\udc20",
     "\\ud801\\udc21", "\\ud801\\udc22", "\\ud801\\udc23", "\\ud801\\udc24", "\\ud801\\udc25",
     "\\ud801\\udc26", "\\ud801\\udc27", "\\ud801\\udc28", "\\ud801\\udc29", "\\ud801\\udc2a",
     "\\ud801\\udc2b", "\\ud801\\udc2c", "\\ud801\\udc2d", "\\ud801\\udc2e", "\\ud801\\udc2f",
     "\\ud801\\udc30", "\\ud801\\udc31", "\\ud801\\udc32", "\\ud801\\udc33", "\\ud801\\udc34",
     "\\ud801\\udc35", "\\ud801\\udc36", "\\ud801\\udc37", "\\ud801\\udc38", "\\ud801\\udc39",
     "\\ud801\\udc3a", "\\ud801\\udc3b", "\\ud801\\udc3c", "\\ud801\\udc3d", "\\ud801\\udc3e",
     "\\ud801\\udc3f", "\\ud801\\udc40", "\\ud801\\udc41", "\\ud801\\udc42", "\\ud801\\udc43",
     "\\ud801\\udc44", "\\ud801\\udc45", "\\ud801\\udc46", "\\ud801\\udc47", "\\ud801\\udc48",
     "\\ud801\\udc49", "\\ud801\\udc4a", "\\ud801\\udc4b", "\\ud801\\udc4c", "\\ud801\\udc4d",
     "\\ud801\\udc4e", "\\ud801\\udc4f", "\\ud801\\udcb0", "\\ud801\\udcb1", "\\ud801\\udcb2",
     "\\ud801\\udcb3", "\\ud801\\udcb4", "\\ud801\\udcb5", "\\ud801\\udcb6", "\\ud801\\udcb7",
     "\\ud801\\udcb8", "\\ud801\\udcb9", "\\ud801\\udcba", "\\ud801\\udcbb", "\\ud801\\udcbc",
     "\\ud801\\udcbd", "\\ud801\\udcbe", "\\ud801\\udcbf", "\\ud801\\udcc0", "\\ud801\\udcc1",
     "\\ud801\\udcc2", "\\ud801\\udcc3", "\\ud801\\udcc4", "\\ud801\\udcc5", "\\ud801\\udcc6",
     "\\ud801\\udcc7", "\\ud801\\udcc8", "\\ud801\\udcc9", "\\ud801\\udcca", "\\ud801\\udccb",
     "\\ud801\\udccc", "\\ud801\\udccd", "\\ud801\\udcce", "\\ud801\\udccf", "\\ud801\\udcd0",
     "\\ud801\\udcd1", "\\ud801\\udcd2", "\\ud801\\udcd3", "\\ud801\\udcd8", "\\ud801\\udcd9",
     "\\ud801\\udcda", "\\ud801\\udcdb", "\\ud801\\udcdc", "\\ud801\\udcdd", "\\ud801\\udcde",
     "\\ud801\\udcdf", "\\ud801\\udce0", "\\ud801\\udce1", "\\ud801\\udce2", "\\ud801\\udce3",
     "\\ud801\\udce4", "\\ud801\\udce5", "\\ud801\\udce6", "\\ud801\\udce7", "\\ud801\\udce8",
     "\\ud801\\udce9", "\\ud801\\udcea", "\\ud801\\udceb", "\\ud801\\udcec", "\\ud801\\udced",
     "\\ud801\\udcee", "\\ud801\\udcef", "\\ud801\\udcf0", "\\ud801\\udcf1", "\\ud801\\udcf2",
     "\\ud801\\udcf3", "\\ud801\\udcf4", "\\ud801\\udcf5", "\\ud801\\udcf6", "\\ud801\\udcf7",
     "\\ud801\\udcf8", "\\ud801\\udcf9", "\\ud801\\udcfa", "\\ud801\\udcfb", "\\ud801\\udd70",
     "\\ud801\\udd71", "\\ud801\\udd72", "\\ud801\\udd73", "\\ud801\\udd74", "\\ud801\\udd75",
     "\\ud801\\udd76", "\\ud801\\udd77", "\\ud801\\udd78", "\\ud801\\udd79", "\\ud801\\udd7a",
     "\\ud801\\udd7c", "\\ud801\\udd7d", "\\ud801\\udd7e", "\\ud801\\udd7f", "\\ud801\\udd80",
     "\\ud801\\udd81", "\\ud801\\udd82", "\\ud801\\udd83", "\\ud801\\udd84", "\\ud801\\udd85",
     "\\ud801\\udd86", "\\ud801\\udd87", "\\ud801\\udd88", "\\ud801\\udd89", "\\ud801\\udd8a",
     "\\ud801\\udd8c", "\\ud801\\udd8d", "\\ud801\\udd8e", "\\ud801\\udd8f", "\\ud801\\udd90",
     "\\ud801\\udd91", "\\ud801\\udd92", "\\ud801\\udd94", "\\ud801\\udd95", "\\ud801\\udd97",
     "\\ud801\\udd98", "\\ud801\\udd99", "\\ud801\\udd9a", "\\ud801\\udd9b", "\\ud801\\udd9c",
     "\\ud801\\udd9d", "\\ud801\\udd9e", "\\ud801\\udd9f", "\\ud801\\udda0", "\\ud801\\udda1",
     "\\ud801\\udda3", "\\ud801\\udda4", "\\ud801\\udda5", "\\ud801\\udda6", "\\ud801\\udda7",
     "\\ud801\\udda8", "\\ud801\\udda9", "\\ud801\\uddaa", "\\ud801\\uddab", "\\ud801\\uddac",
     "\\ud801\\uddad", "\\ud801\\uddae", "\\ud801\\uddaf", "\\ud801\\uddb0", "\\ud801\\uddb1",
     "\\ud801\\uddb3", "\\ud801\\uddb4", "\\ud801\\uddb5", "\\ud801\\uddb6", "\\ud801\\uddb7",
     "\\ud801\\uddb8", "\\ud801\\uddb9", "\\ud801\\uddbb", "\\ud801\\uddbc", "\\ud803\\udc80",
     "\\ud803\\udc81", "\\ud803\\udc82", "\\ud803\\udc83", "\\ud803\\udc84", "\\ud803\\udc85",
     "\\ud803\\udc86", "\\ud803\\udc87", "\\ud803\\udc88", "\\ud803\\udc89", "\\ud803\\udc8a",
     "\\ud803\\udc8b", "\\ud803\\udc8c", "\\ud803\\udc8d", "\\ud803\\udc8e", "\\ud803\\udc8f",
     "\\ud803\\udc90", "\\ud803\\udc91", "\\ud803\\udc92", "\\ud803\\udc93", "\\ud803\\udc94",
     "\\ud803\\udc95", "\\ud803\\udc96", "\\ud803\\udc97", "\\ud803\\udc98", "\\ud803\\udc99",
     "\\ud803\\udc9a", "\\ud803\\udc9b", "\\ud803\\udc9c", "\\ud803\\udc9d", "\\ud803\\udc9e",
     "\\ud803\\udc9f", "\\ud803\\udca0", "\\ud803\\udca1", "\\ud803\\udca2", "\\ud803\\udca3",
     "\\ud803\\udca4", "\\ud803\\udca5", "\\ud803\\udca6", "\\ud803\\udca7", "\\ud803\\udca8",
     "\\ud803\\udca9", "\\ud803\\udcaa", "\\ud803\\udcab", "\\ud803\\udcac", "\\ud803\\udcad",
     "\\ud803\\udcae", "\\ud803\\udcaf", "\\ud803\\udcb0", "\\ud803\\udcb1", "\\ud803\\udcb2",
     "\\ud803\\udcc0", "\\ud803\\udcc1", "\\ud803\\udcc2", "\\ud803\\udcc3", "\\ud803\\udcc4",
     "\\ud803\\udcc5", "\\ud803\\udcc6", "\\ud803\\udcc7", "\\ud803\\udcc8", "\\ud803\\udcc9",
     "\\ud803\\udcca", "\\ud803\\udccb", "\\ud803\\udccc", "\\ud803\\udccd", "\\ud803\\udcce",
     "\\ud803\\udccf", "\\ud803\\udcd0", "\\ud803\\udcd1", "\\ud803\\udcd2", "\\ud803\\udcd3",
     "\\ud803\\udcd4", "\\ud803\\udcd5", "\\ud803\\udcd6", "\\ud803\\udcd7", "\\ud803\\udcd8",
     "\\ud803\\udcd9", "\\ud803\\udcda", "\\ud803\\udcdb", "\\ud803\\udcdc", "\\ud803\\udcdd",
     "\\ud803\\udcde", "\\ud803\\udcdf", "\\ud803\\udce0", "\\ud803\\udce1", "\\ud803\\udce2",
     "\\ud803\\udce3", "\\ud803\\udce4", "\\ud803\\udce5", "\\ud803\\udce6", "\\ud803\\udce7",
     "\\ud803\\udce8", "\\ud803\\udce9", "\\ud803\\udcea", "\\ud803\\udceb", "\\ud803\\udcec",
     "\\ud803\\udced", "\\ud803\\udcee", "\\ud803\\udcef", "\\ud803\\udcf0", "\\ud803\\udcf1",
     "\\ud803\\udcf2", "\\ud806\\udca0", "\\ud806\\udca1", "\\ud806\\udca2", "\\ud806\\udca3",
     "\\ud806\\udca4", "\\ud806\\udca5", "\\ud806\\udca6", "\\ud806\\udca7", "\\ud806\\udca8",
     "\\ud806\\udca9", "\\ud806\\udcaa", "\\ud806\\udcab", "\\ud806\\udcac", "\\ud806\\udcad",
     "\\ud806\\udcae", "\\ud806\\udcaf", "\\ud806\\udcb0", "\\ud806\\udcb1", "\\ud806\\udcb2",
     "\\ud806\\udcb3", "\\ud806\\udcb4", "\\ud806\\udcb5", "\\ud806\\udcb6", "\\ud806\\udcb7",
     "\\ud806\\udcb8", "\\ud806\\udcb9", "\\ud806\\udcba", "\\ud806\\udcbb", "\\ud806\\udcbc",
     "\\ud806\\udcbd", "\\ud806\\udcbe", "\\ud806\\udcbf", "\\ud806\\udcc0", "\\ud806\\udcc1",
     "\\ud806\\udcc2", "\\ud806\\udcc3", "\\ud806\\udcc4", "\\ud806\\udcc5", "\\ud806\\udcc6",
     "\\ud806\\udcc7", "\\ud806\\udcc8", "\\ud806\\udcc9", "\\ud806\\udcca", "\\ud806\\udccb",
     "\\ud806\\udccc", "\\ud806\\udccd", "\\ud806\\udcce", "\\ud806\\udccf", "\\ud806\\udcd0",
     "\\ud806\\udcd1", "\\ud806\\udcd2", "\\ud806\\udcd3", "\\ud806\\udcd4", "\\ud806\\udcd5",
     "\\ud806\\udcd6", "\\ud806\\udcd7", "\\ud806\\udcd8", "\\ud806\\udcd9", "\\ud806\\udcda",
     "\\ud806\\udcdb", "\\ud806\\udcdc", "\\ud806\\udcdd", "\\ud806\\udcde", "\\ud806\\udcdf",
     "\\ud81b\\ude40", "\\ud81b\\ude41", "\\ud81b\\ude42", "\\ud81b\\ude43", "\\ud81b\\ude44",
     "\\ud81b\\ude45", "\\ud81b\\ude46", "\\ud81b\\ude47", "\\ud81b\\ude48", "\\ud81b\\ude49",
     "\\ud81b\\ude4a", "\\ud81b\\ude4b", "\\ud81b\\ude4c", "\\ud81b\\ude4d", "\\ud81b\\ude4e",
     "\\ud81b\\ude4f", "\\ud81b\\ude50", "\\ud81b\\ude51", "\\ud81b\\ude52", "\\ud81b\\ude53",
     "\\ud81b\\ude54", "\\ud81b\\ude55", "\\ud81b\\ude56", "\\ud81b\\ude57", "\\ud81b\\ude58",
     "\\ud81b\\ude59", "\\ud81b\\ude5a", "\\ud81b\\ude5b", "\\ud81b\\ude5c", "\\ud81b\\ude5d",
     "\\ud81b\\ude5e", "\\ud81b\\ude5f", "\\ud81b\\ude60", "\\ud81b\\ude61", "\\ud81b\\ude62",
     "\\ud81b\\ude63", "\\ud81b\\ude64", "\\ud81b\\ude65", "\\ud81b\\ude66", "\\ud81b\\ude67",
     "\\ud81b\\ude68", "\\ud81b\\ude69", "\\ud81b\\ude6a", "\\ud81b\\ude6b", "\\ud81b\\ude6c",
     "\\ud81b\\ude6d", "\\ud81b\\ude6e", "\\ud81b\\ude6f", "\\ud81b\\ude70", "\\ud81b\\ude71",
     "\\ud81b\\ude72", "\\ud81b\\ude73", "\\ud81b\\ude74", "\\ud81b\\ude75", "\\ud81b\\ude76",
     "\\ud81b\\ude77", "\\ud81b\\ude78", "\\ud81b\\ude79", "\\ud81b\\ude7a", "\\ud81b\\ude7b",
     "\\ud81b\\ude7c", "\\ud81b\\ude7d", "\\ud81b\\ude7e", "\\ud81b\\ude7f", "\\ud835\\udc00",
     "\\ud835\\udc01", "\\ud835\\udc02", "\\ud835\\udc03", "\\ud835\\udc04", "\\ud835\\udc05",
     "\\ud835\\udc06", "\\ud835\\udc07", "\\ud835\\udc08", "\\ud835\\udc09", "\\ud835\\udc0a",
     "\\ud835\\udc0b", "\\ud835\\udc0c", "\\ud835\\udc0d", "\\ud835\\udc0e", "\\ud835\\udc0f",
     "\\ud835\\udc10", "\\ud835\\udc11", "\\ud835\\udc12", "\\ud835\\udc13", "\\ud835\\udc14",
     "\\ud835\\udc15", "\\ud835\\udc16", "\\ud835\\udc17", "\\ud835\\udc18", "\\ud835\\udc19",
     "\\ud835\\udc1a", "\\ud835\\udc1b", "\\ud835\\udc1c", "\\ud835\\udc1d", "\\ud835\\udc1e",
     "\\ud835\\udc1f", "\\ud835\\udc20", "\\ud835\\udc21", "\\ud835\\udc22", "\\ud835\\udc23",
     "\\ud835\\udc24", "\\ud835\\udc25", "\\ud835\\udc26", "\\ud835\\udc27", "\\ud835\\udc28",
     "\\ud835\\udc29", "\\ud835\\udc2a", "\\ud835\\udc2b", "\\ud835\\udc2c", "\\ud835\\udc2d",
     "\\ud835\\udc2e", "\\ud835\\udc2f", "\\ud835\\udc30", "\\ud835\\udc31", "\\ud835\\udc32",
     "\\ud835\\udc33", "\\ud835\\udc34", "\\ud835\\udc35", "\\ud835\\udc36", "\\ud835\\udc37",
     "\\ud835\\udc38", "\\ud835\\udc39", "\\ud835\\udc3a", "\\ud835\\udc3b", "\\ud835\\udc3c",
     "\\ud835\\udc3d", "\\ud835\\udc3e", "\\ud835\\udc3f", "\\ud835\\udc40", "\\ud835\\udc41",
     "\\ud835\\udc42", "\\ud835\\udc43", "\\ud835\\udc44", "\\ud835\\udc45", "\\ud835\\udc46",
     "\\ud835\\udc47", "\\ud835\\udc48", "\\ud835\\udc49", "\\ud835\\udc4a", "\\ud835\\udc4b",
     "\\ud835\\udc4c", "\\ud835\\udc4d", "\\ud835\\udc4e", "\\ud835\\udc4f", "\\ud835\\udc50",
     "\\ud835\\udc51", "\\ud835\\udc52", "\\ud835\\udc53", "\\ud835\\udc54", "\\ud835\\udc56",
     "\\ud835\\udc57", "\\ud835\\udc58", "\\ud835\\udc59", "\\ud835\\udc5a", "\\ud835\\udc5b",
     "\\ud835\\udc5c", "\\ud835\\udc5d", "\\ud835\\udc5e", "\\ud835\\udc5f", "\\ud835\\udc60",
     "\\ud835\\udc61", "\\ud835\\udc62", "\\ud835\\udc63", "\\ud835\\udc64", "\\ud835\\udc65",
     "\\ud835\\udc66", "\\ud835\\udc67", "\\ud835\\udc68", "\\ud835\\udc69", "\\ud835\\udc6a",
     "\\ud835\\udc6b", "\\ud835\\udc6c", "\\ud835\\udc6d", "\\ud835\\udc6e", "\\ud835\\udc6f",
     "\\ud835\\udc70", "\\ud835\\udc71", "\\ud835\\udc72", "\\ud835\\udc73", "\\ud835\\udc74",
     "\\ud835\\udc75", "\\ud835\\udc76", "\\ud835\\udc77", "\\ud835\\udc78", "\\ud835\\udc79",
     "\\ud835\\udc7a", "\\ud835\\udc7b", "\\ud835\\udc7c", "\\ud835\\udc7d", "\\ud835\\udc7e",
     "\\ud835\\udc7f", "\\ud835\\udc80", "\\ud835\\udc81", "\\ud835\\udc82", "\\ud835\\udc83",
     "\\ud835\\udc84", "\\ud835\\udc85", "\\ud835\\udc86", "\\ud835\\udc87", "\\ud835\\udc88",
     "\\ud835\\udc89", "\\ud835\\udc8a", "\\ud835\\udc8b", "\\ud835\\udc8c", "\\ud835\\udc8d",
     "\\ud835\\udc8e", "\\ud835\\udc8f", "\\ud835\\udc90", "\\ud835\\udc91", "\\ud835\\udc92",
     "\\ud835\\udc93", "\\ud835\\udc94", "\\ud835\\udc95", "\\ud835\\udc96", "\\ud835\\udc97",
     "\\ud835\\udc98", "\\ud835\\udc99", "\\ud835\\udc9a", "\\ud835\\udc9b", "\\ud835\\udc9c",
     "\\ud835\\udc9e", "\\ud835\\udc9f", "\\ud835\\udca2", "\\ud835\\udca5", "\\ud835\\udca6",
     "\\ud835\\udca9", "\\ud835\\udcaa", "\\ud835\\udcab", "\\ud835\\udcac", "\\ud835\\udcae",
     "\\ud835\\udcaf", "\\ud835\\udcb0", "\\ud835\\udcb1", "\\ud835\\udcb2", "\\ud835\\udcb3",
     "\\ud835\\udcb4", "\\ud835\\udcb5", "\\ud835\\udcb6", "\\ud835\\udcb7", "\\ud835\\udcb8",
     "\\ud835\\udcb9", "\\ud835\\udcbb", "\\ud835\\udcbd", "\\ud835\\udcbe", "\\ud835\\udcbf",
     "\\ud835\\udcc0", "\\ud835\\udcc1", "\\ud835\\udcc2", "\\ud835\\udcc3", "\\ud835\\udcc5",
     "\\ud835\\udcc6", "\\ud835\\udcc7", "\\ud835\\udcc8", "\\ud835\\udcc9", "\\ud835\\udcca",
     "\\ud835\\udccb", "\\ud835\\udccc", "\\ud835\\udccd", "\\ud835\\udcce", "\\ud835\\udccf",
     "\\ud835\\udcd0", "\\ud835\\udcd1", "\\ud835\\udcd2", "\\ud835\\udcd3", "\\ud835\\udcd4",
     "\\ud835\\udcd5", "\\ud835\\udcd6", "\\ud835\\udcd7", "\\ud835\\udcd8", "\\ud835\\udcd9",
     "\\ud835\\udcda", "\\ud835\\udcdb", "\\ud835\\udcdc", "\\ud835\\udcdd", "\\ud835\\udcde",
     "\\ud835\\udcdf", "\\ud835\\udce0", "\\ud835\\udce1", "\\ud835\\udce2", "\\ud835\\udce3",
     "\\ud835\\udce4", "\\ud835\\udce5", "\\ud835\\udce6", "\\ud835\\udce7", "\\ud835\\udce8",
     "\\ud835\\udce9", "\\ud835\\udcea", "\\ud835\\udceb", "\\ud835\\udcec", "\\ud835\\udced",
     "\\ud835\\udcee", "\\ud835\\udcef", "\\ud835\\udcf0", "\\ud835\\udcf1", "\\ud835\\udcf2",
     "\\ud835\\udcf3", "\\ud835\\udcf4", "\\ud835\\udcf5", "\\ud835\\udcf6", "\\ud835\\udcf7",
     "\\ud835\\udcf8", "\\ud835\\udcf9", "\\ud835\\udcfa", "\\ud835\\udcfb", "\\ud835\\udcfc",
     "\\ud835\\udcfd", "\\ud835\\udcfe", "\\ud835\\udcff", "\\ud835\\udd00", "\\ud835\\udd01",
     "\\ud835\\udd02", "\\ud835\\udd03", "\\ud835\\udd04", "\\ud835\\udd05", "\\ud835\\udd07",
     "\\ud835\\udd08", "\\ud835\\udd09", "\\ud835\\udd0a", "\\ud835\\udd0d", "\\ud835\\udd0e",
     "\\ud835\\udd0f", "\\ud835\\udd10", "\\ud835\\udd11", "\\ud835\\udd12", "\\ud835\\udd13",
     "\\ud835\\udd14", "\\ud835\\udd16", "\\ud835\\udd17", "\\ud835\\udd18", "\\ud835\\udd19",
     "\\ud835\\udd1a", "\\ud835\\udd1b", "\\ud835\\udd1c", "\\ud835\\udd1e", "\\ud835\\udd1f",
     "\\ud835\\udd20", "\\ud835\\udd21", "\\ud835\\udd22", "\\ud835\\udd23", "\\ud835\\udd24",
     "\\ud835\\udd25", "\\ud835\\udd26", "\\ud835\\udd27", "\\ud835\\udd28", "\\ud835\\udd29",
     "\\ud835\\udd2a", "\\ud835\\udd2b", "\\ud835\\udd2c", "\\ud835\\udd2d", "\\ud835\\udd2e",
     "\\ud835\\udd2f", "\\ud835\\udd30", "\\ud835\\udd31", "\\ud835\\udd32", "\\ud835\\udd33",
     "\\ud835\\udd34", "\\ud835\\udd35", "\\ud835\\udd36", "\\ud835\\udd37", "\\ud835\\udd38",
     "\\ud835\\udd39", "\\ud835\\udd3b", "\\ud835\\udd3c", "\\ud835\\udd3d", "\\ud835\\udd3e",
     "\\ud835\\udd40", "\\ud835\\udd41", "\\ud835\\udd42", "\\ud835\\udd43", "\\ud835\\udd44",
     "\\ud835\\udd46", "\\ud835\\udd4a", "\\ud835\\udd4b", "\\ud835\\udd4c", "\\ud835\\udd4d",
     "\\ud835\\udd4e", "\\ud835\\udd4f", "\\ud835\\udd50", "\\ud835\\udd52", "\\ud835\\udd53",
     "\\ud835\\udd54", "\\ud835\\udd55", "\\ud835\\udd56", "\\ud835\\udd57", "\\ud835\\udd58",
     "\\ud835\\udd59", "\\ud835\\udd5a", "\\ud835\\udd5b", "\\ud835\\udd5c", "\\ud835\\udd5d",
     "\\ud835\\udd5e", "\\ud835\\udd5f", "\\ud835\\udd60", "\\ud835\\udd61", "\\ud835\\udd62",
     "\\ud835\\udd63", "\\ud835\\udd64", "\\ud835\\udd65", "\\ud835\\udd66", "\\ud835\\udd67",
     "\\ud835\\udd68", "\\ud835\\udd69", "\\ud835\\udd6a", "\\ud835\\udd6b", "\\ud835\\udd6c",
     "\\ud835\\udd6d", "\\ud835\\udd6e", "\\ud835\\udd6f", "\\ud835\\udd70", "\\ud835\\udd71",
     "\\ud835\\udd72", "\\ud835\\udd73", "\\ud835\\udd74", "\\ud835\\udd75", "\\ud835\\udd76",
     "\\ud835\\udd77", "\\ud835\\udd78", "\\ud835\\udd79", "\\ud835\\udd7a", "\\ud835\\udd7b",
     "\\ud835\\udd7c", "\\ud835\\udd7d", "\\ud835\\udd7e", "\\ud835\\udd7f", "\\ud835\\udd80",
     "\\ud835\\udd81", "\\ud835\\udd82", "\\ud835\\udd83", "\\ud835\\udd84", "\\ud835\\udd85",
     "\\ud835\\udd86", "\\ud835\\udd87", "\\ud835\\udd88", "\\ud835\\udd89", "\\ud835\\udd8a",
     "\\ud835\\udd8b", "\\ud835\\udd8c", "\\ud835\\udd8d", "\\ud835\\udd8e", "\\ud835\\udd8f",
     "\\ud835\\udd90", "\\ud835\\udd91", "\\ud835\\udd92", "\\ud835\\udd93", "\\ud835\\udd94",
     "\\ud835\\udd95", "\\ud835\\udd96", "\\ud835\\udd97", "\\ud835\\udd98", "\\ud835\\udd99",
     "\\ud835\\udd9a", "\\ud835\\udd9b", "\\ud835\\udd9c", "\\ud835\\udd9d", "\\ud835\\udd9e",
     "\\ud835\\udd9f", "\\ud835\\udda0", "\\ud835\\udda1", "\\ud835\\udda2", "\\ud835\\udda3",
     "\\ud835\\udda4", "\\ud835\\udda5", "\\ud835\\udda6", "\\ud835\\udda7", "\\ud835\\udda8",
     "\\ud835\\udda9", "\\ud835\\uddaa", "\\ud835\\uddab", "\\ud835\\uddac", "\\ud835\\uddad",
     "\\ud835\\uddae", "\\ud835\\uddaf", "\\ud835\\uddb0", "\\ud835\\uddb1", "\\ud835\\uddb2",
     "\\ud835\\uddb3", "\\ud835\\uddb4", "\\ud835\\uddb5", "\\ud835\\uddb6", "\\ud835\\uddb7",
     "\\ud835\\uddb8", "\\ud835\\uddb9", "\\ud835\\uddba", "\\ud835\\uddbb", "\\ud835\\uddbc",
     "\\ud835\\uddbd", "\\ud835\\uddbe", "\\ud835\\uddbf", "\\ud835\\uddc0", "\\ud835\\uddc1",
     "\\ud835\\uddc2", "\\ud835\\uddc3", "\\ud835\\uddc4", "\\ud835\\uddc5", "\\ud835\\uddc6",
     "\\ud835\\uddc7", "\\ud835\\uddc8", "\\ud835\\uddc9", "\\ud835\\uddca", "\\ud835\\uddcb",
     "\\ud835\\uddcc", "\\ud835\\uddcd", "\\ud835\\uddce", "\\ud835\\uddcf", "\\ud835\\uddd0",
     "\\ud835\\uddd1", "\\ud835\\uddd2", "\\ud835\\uddd3", "\\ud835\\uddd4", "\\ud835\\uddd5",
     "\\ud835\\uddd6", "\\ud835\\uddd7", "\\ud835\\uddd8", "\\ud835\\uddd9", "\\ud835\\uddda",
     "\\ud835\\udddb", "\\ud835\\udddc", "\\ud835\\udddd", "\\ud835\\uddde", "\\ud835\\udddf",
     "\\ud835\\udde0", "\\ud835\\udde1", "\\ud835\\udde2", "\\ud835\\udde3", "\\ud835\\udde4",
     "\\ud835\\udde5", "\\ud835\\udde6", "\\ud835\\udde7", "\\ud835\\udde8", "\\ud835\\udde9",
     "\\ud835\\uddea", "\\ud835\\uddeb", "\\ud835\\uddec", "\\ud835\\udded", "\\ud835\\uddee",
     "\\ud835\\uddef", "\\ud835\\uddf0", "\\ud835\\uddf1", "\\ud835\\uddf2", "\\ud835\\uddf3",
     "\\ud835\\uddf4", "\\ud835\\uddf5", "\\ud835\\uddf6", "\\ud835\\uddf7", "\\ud835\\uddf8",
     "\\ud835\\uddf9", "\\ud835\\uddfa", "\\ud835\\uddfb", "\\ud835\\uddfc", "\\ud835\\uddfd",
     "\\ud835\\uddfe", "\\ud835\\uddff", "\\ud835\\ude00", "\\ud835\\ude01", "\\ud835\\ude02",
     "\\ud835\\ude03", "\\ud835\\ude04", "\\ud835\\ude05", "\\ud835\\ude06", "\\ud835\\ude07",
     "\\ud835\\ude08", "\\ud835\\ude09", "\\ud835\\ude0a", "\\ud835\\ude0b", "\\ud835\\ude0c",
     "\\ud835\\ude0d", "\\ud835\\ude0e", "\\ud835\\ude0f", "\\ud835\\ude10", "\\ud835\\ude11",
     "\\ud835\\ude12", "\\ud835\\ude13", "\\ud835\\ude14", "\\ud835\\ude15", "\\ud835\\ude16",
     "\\ud835\\ude17", "\\ud835\\ude18", "\\ud835\\ude19", "\\ud835\\ude1a", "\\ud835\\ude1b",
     "\\ud835\\ude1c", "\\ud835\\ude1d", "\\ud835\\ude1e", "\\ud835\\ude1f", "\\ud835\\ude20",
     "\\ud835\\ude21", "\\ud835\\ude22", "\\ud835\\ude23", "\\ud835\\ude24", "\\ud835\\ude25",
     "\\ud835\\ude26", "\\ud835\\ude27", "\\ud835\\ude28", "\\ud835\\ude29", "\\ud835\\ude2a",
     "\\ud835\\ude2b", "\\ud835\\ude2c", "\\ud835\\ude2d", "\\ud835\\ude2e", "\\ud835\\ude2f",
     "\\ud835\\ude30", "\\ud835\\ude31", "\\ud835\\ude32", "\\ud835\\ude33", "\\ud835\\ude34",
     "\\ud835\\ude35", "\\ud835\\ude36", "\\ud835\\ude37", "\\ud835\\ude38", "\\ud835\\ude39",
     "\\ud835\\ude3a", "\\ud835\\ude3b", "\\ud835\\ude3c", "\\ud835\\ude3d", "\\ud835\\ude3e",
     "\\ud835\\ude3f", "\\ud835\\ude40", "\\ud835\\ude41", "\\ud835\\ude42", "\\ud835\\ude43",
     "\\ud835\\ude44", "\\ud835\\ude45", "\\ud835\\ude46", "\\ud835\\ude47", "\\ud835\\ude48",
     "\\ud835\\ude49", "\\ud835\\ude4a", "\\ud835\\ude4b", "\\ud835\\ude4c", "\\ud835\\ude4d",
     "\\ud835\\ude4e", "\\ud835\\ude4f", "\\ud835\\ude50", "\\ud835\\ude51", "\\ud835\\ude52",
     "\\ud835\\ude53", "\\ud835\\ude54", "\\ud835\\ude55", "\\ud835\\ude56", "\\ud835\\ude57",
     "\\ud835\\ude58", "\\ud835\\ude59", "\\ud835\\ude5a", "\\ud835\\ude5b", "\\ud835\\ude5c",
     "\\ud835\\ude5d", "\\ud835\\ude5e", "\\ud835\\ude5f", "\\ud835\\ude60", "\\ud835\\ude61",
     "\\ud835\\ude62", "\\ud835\\ude63", "\\ud835\\ude64", "\\ud835\\ude65", "\\ud835\\ude66",
     "\\ud835\\ude67", "\\ud835\\ude68", "\\ud835\\ude69", "\\ud835\\ude6a", "\\ud835\\ude6b",
     "\\ud835\\ude6c", "\\ud835\\ude6d", "\\ud835\\ude6e", "\\ud835\\ude6f", "\\ud835\\ude70",
     "\\ud835\\ude71", "\\ud835\\ude72", "\\ud835\\ude73", "\\ud835\\ude74", "\\ud835\\ude75",
     "\\ud835\\ude76", "\\ud835\\ude77", "\\ud835\\ude78", "\\ud835\\ude79", "\\ud835\\ude7a",
     "\\ud835\\ude7b", "\\ud835\\ude7c", "\\ud835\\ude7d", "\\ud835\\ude7e", "\\ud835\\ude7f",
     "\\ud835\\ude80", "\\ud835\\ude81", "\\ud835\\ude82", "\\ud835\\ude83", "\\ud835\\ude84",
     "\\ud835\\ude85", "\\ud835\\ude86", "\\ud835\\ude87", "\\ud835\\ude88", "\\ud835\\ude89",
     "\\ud835\\ude8a", "\\ud835\\ude8b", "\\ud835\\ude8c", "\\ud835\\ude8d", "\\ud835\\ude8e",
     "\\ud835\\ude8f", "\\ud835\\ude90", "\\ud835\\ude91", "\\ud835\\ude92", "\\ud835\\ude93",
     "\\ud835\\ude94", "\\ud835\\ude95", "\\ud835\\ude96", "\\ud835\\ude97", "\\ud835\\ude98",
     "\\ud835\\ude99", "\\ud835\\ude9a", "\\ud835\\ude9b", "\\ud835\\ude9c", "\\ud835\\ude9d",
     "\\ud835\\ude9e", "\\ud835\\ude9f", "\\ud835\\udea0", "\\ud835\\udea1", "\\ud835\\udea2",
     "\\ud835\\udea3", "\\ud835\\udea4", "\\ud835\\udea5", "\\ud835\\udea8", "\\ud835\\udea9",
     "\\ud835\\udeaa", "\\ud835\\udeab", "\\ud835\\udeac", "\\ud835\\udead", "\\ud835\\udeae",
     "\\ud835\\udeaf", "\\ud835\\udeb0", "\\ud835\\udeb1", "\\ud835\\udeb2", "\\ud835\\udeb3",
     "\\ud835\\udeb4", "\\ud835\\udeb5", "\\ud835\\udeb6", "\\ud835\\udeb7", "\\ud835\\udeb8",
     "\\ud835\\udeb9", "\\ud835\\udeba", "\\ud835\\udebb", "\\ud835\\udebc", "\\ud835\\udebd",
     "\\ud835\\udebe", "\\ud835\\udebf", "\\ud835\\udec0", "\\ud835\\udec2", "\\ud835\\udec3",
     "\\ud835\\udec4", "\\ud835\\udec5", "\\ud835\\udec6", "\\ud835\\udec7", "\\ud835\\udec8",
     "\\ud835\\udec9", "\\ud835\\udeca", "\\ud835\\udecb", "\\ud835\\udecc", "\\ud835\\udecd",
     "\\ud835\\udece", "\\ud835\\udecf", "\\ud835\\uded0", "\\ud835\\uded1", "\\ud835\\uded2",
     "\\ud835\\uded3", "\\ud835\\uded4", "\\ud835\\uded5", "\\ud835\\uded6", "\\ud835\\uded7",
     "\\ud835\\uded8", "\\ud835\\uded9", "\\ud835\\udeda", "\\ud835\\udedc", "\\ud835\\udedd",
     "\\ud835\\udede", "\\ud835\\udedf", "\\ud835\\udee0", "\\ud835\\udee1", "\\ud835\\udee2",
     "\\ud835\\udee3", "\\ud835\\udee4", "\\ud835\\udee5", "\\ud835\\udee6", "\\ud835\\udee7",
     "\\ud835\\udee8", "\\ud835\\udee9", "\\ud835\\udeea", "\\ud835\\udeeb", "\\ud835\\udeec",
     "\\ud835\\udeed", "\\ud835\\udeee", "\\ud835\\udeef", "\\ud835\\udef0", "\\ud835\\udef1",
     "\\ud835\\udef2", "\\ud835\\udef3", "\\ud835\\udef4", "\\ud835\\udef5", "\\ud835\\udef6",
     "\\ud835\\udef7", "\\ud835\\udef8", "\\ud835\\udef9", "\\ud835\\udefa", "\\ud835\\udefc",
     "\\ud835\\udefd", "\\ud835\\udefe", "\\ud835\\udeff", "\\ud835\\udf00", "\\ud835\\udf01",
     "\\ud835\\udf02", "\\ud835\\udf03", "\\ud835\\udf04", "\\ud835\\udf05", "\\ud835\\udf06",
     "\\ud835\\udf07", "\\ud835\\udf08", "\\ud835\\udf09", "\\ud835\\udf0a", "\\ud835\\udf0b",
     "\\ud835\\udf0c", "\\ud835\\udf0d", "\\ud835\\udf0e", "\\ud835\\udf0f", "\\ud835\\udf10",
     "\\ud835\\udf11", "\\ud835\\udf12", "\\ud835\\udf13", "\\ud835\\udf14", "\\ud835\\udf16",
     "\\ud835\\udf17", "\\ud835\\udf18", "\\ud835\\udf19", "\\ud835\\udf1a", "\\ud835\\udf1b",
     "\\ud835\\udf1c", "\\ud835\\udf1d", "\\ud835\\udf1e", "\\ud835\\udf1f", "\\ud835\\udf20",
     "\\ud835\\udf21", "\\ud835\\udf22", "\\ud835\\udf23", "\\ud835\\udf24", "\\ud835\\udf25",
     "\\ud835\\udf26", "\\ud835\\udf27", "\\ud835\\udf28", "\\ud835\\udf29", "\\ud835\\udf2a",
     "\\ud835\\udf2b", "\\ud835\\udf2c", "\\ud835\\udf2d", "\\ud835\\udf2e", "\\ud835\\udf2f",
     "\\ud835\\udf30", "\\ud835\\udf31", "\\ud835\\udf32", "\\ud835\\udf33", "\\ud835\\udf34",
     "\\ud835\\udf36", "\\ud835\\udf37", "\\ud835\\udf38", "\\ud835\\udf39", "\\ud835\\udf3a",
     "\\ud835\\udf3b", "\\ud835\\udf3c", "\\ud835\\udf3d", "\\ud835\\udf3e", "\\ud835\\udf3f",
     "\\ud835\\udf40", "\\ud835\\udf41", "\\ud835\\udf42", "\\ud835\\udf43", "\\ud835\\udf44",
     "\\ud835\\udf45", "\\ud835\\udf46", "\\ud835\\udf47", "\\ud835\\udf48", "\\ud835\\udf49",
     "\\ud835\\udf4a", "\\ud835\\udf4b", "\\ud835\\udf4c", "\\ud835\\udf4d", "\\ud835\\udf4e",
     "\\ud835\\udf50", "\\ud835\\udf51", "\\ud835\\udf52", "\\ud835\\udf53", "\\ud835\\udf54",
     "\\ud835\\udf55", "\\ud835\\udf56", "\\ud835\\udf57", "\\ud835\\udf58", "\\ud835\\udf59",
     "\\ud835\\udf5a", "\\ud835\\udf5b", "\\ud835\\udf5c", "\\ud835\\udf5d", "\\ud835\\udf5e",
     "\\ud835\\udf5f", "\\ud835\\udf60", "\\ud835\\udf61", "\\ud835\\udf62", "\\ud835\\udf63",
     "\\ud835\\udf64", "\\ud835\\udf65", "\\ud835\\udf66", "\\ud835\\udf67", "\\ud835\\udf68",
     "\\ud835\\udf69", "\\ud835\\udf6a", "\\ud835\\udf6b", "\\ud835\\udf6c", "\\ud835\\udf6d",
     "\\ud835\\udf6e", "\\ud835\\udf70", "\\ud835\\udf71", "\\ud835\\udf72", "\\ud835\\udf73",
     "\\ud835\\udf74", "\\ud835\\udf75", "\\ud835\\udf76", "\\ud835\\udf77", "\\ud835\\udf78",
     "\\ud835\\udf79", "\\ud835\\udf7a", "\\ud835\\udf7b", "\\ud835\\udf7c", "\\ud835\\udf7d",
     "\\ud835\\udf7e", "\\ud835\\udf7f", "\\ud835\\udf80", "\\ud835\\udf81", "\\ud835\\udf82",
     "\\ud835\\udf83", "\\ud835\\udf84", "\\ud835\\udf85", "\\ud835\\udf86", "\\ud835\\udf87",
     "\\ud835\\udf88", "\\ud835\\udf8a", "\\ud835\\udf8b", "\\ud835\\udf8c", "\\ud835\\udf8d",
     "\\ud835\\udf8e", "\\ud835\\udf8f", "\\ud835\\udf90", "\\ud835\\udf91", "\\ud835\\udf92",
     "\\ud835\\udf93", "\\ud835\\udf94", "\\ud835\\udf95", "\\ud835\\udf96", "\\ud835\\udf97",
     "\\ud835\\udf98", "\\ud835\\udf99", "\\ud835\\udf9a", "\\ud835\\udf9b", "\\ud835\\udf9c",
     "\\ud835\\udf9d", "\\ud835\\udf9e", "\\ud835\\udf9f", "\\ud835\\udfa0", "\\ud835\\udfa1",
     "\\ud835\\udfa2", "\\ud835\\udfa3", "\\ud835\\udfa4", "\\ud835\\udfa5", "\\ud835\\udfa6",
     "\\ud835\\udfa7", "\\ud835\\udfa8", "\\ud835\\udfaa", "\\ud835\\udfab", "\\ud835\\udfac",
     "\\ud835\\udfad", "\\ud835\\udfae", "\\ud835\\udfaf", "\\ud835\\udfb0", "\\ud835\\udfb1",
     "\\ud835\\udfb2", "\\ud835\\udfb3", "\\ud835\\udfb4", "\\ud835\\udfb5", "\\ud835\\udfb6",
     "\\ud835\\udfb7", "\\ud835\\udfb8", "\\ud835\\udfb9", "\\ud835\\udfba", "\\ud835\\udfbb",
     "\\ud835\\udfbc", "\\ud835\\udfbd", "\\ud835\\udfbe", "\\ud835\\udfbf", "\\ud835\\udfc0",
     "\\ud835\\udfc1", "\\ud835\\udfc2", "\\ud835\\udfc4", "\\ud835\\udfc5", "\\ud835\\udfc6",
     "\\ud835\\udfc7", "\\ud835\\udfc8", "\\ud835\\udfc9", "\\ud835\\udfca", "\\ud835\\udfcb",
     "\\ud837\\udf00", "\\ud837\\udf01", "\\ud837\\udf02", "\\ud837\\udf03", "\\ud837\\udf04",
     "\\ud837\\udf05", "\\ud837\\udf06", "\\ud837\\udf07", "\\ud837\\udf08", "\\ud837\\udf09",
     "\\ud837\\udf0b", "\\ud837\\udf0c", "\\ud837\\udf0d", "\\ud837\\udf0e", "\\ud837\\udf0f",
     "\\ud837\\udf10", "\\ud837\\udf11", "\\ud837\\udf12", "\\ud837\\udf13", "\\ud837\\udf14",
     "\\ud837\\udf15", "\\ud837\\udf16", "\\ud837\\udf17", "\\ud837\\udf18", "\\ud837\\udf19",
     "\\ud837\\udf1a", "\\ud837\\udf1b", "\\ud837\\udf1c", "\\ud837\\udf1d", "\\ud837\\udf1e",
     "\\ud83a\\udd00", "\\ud83a\\udd01", "\\ud83a\\udd02", "\\ud83a\\udd03", "\\ud83a\\udd04",
     "\\ud83a\\udd05", "\\ud83a\\udd06", "\\ud83a\\udd07", "\\ud83a\\udd08", "\\ud83a\\udd09",
     "\\ud83a\\udd0a", "\\ud83a\\udd0b", "\\ud83a\\udd0c", "\\ud83a\\udd0d", "\\ud83a\\udd0e",
     "\\ud83a\\udd0f", "\\ud83a\\udd10", "\\ud83a\\udd11", "\\ud83a\\udd12", "\\ud83a\\udd13",
     "\\ud83a\\udd14", "\\ud83a\\udd15", "\\ud83a\\udd16", "\\ud83a\\udd17", "\\ud83a\\udd18",
     "\\ud83a\\udd19", "\\ud83a\\udd1a", "\\ud83a\\udd1b", "\\ud83a\\udd1c", "\\ud83a\\udd1d",
     "\\ud83a\\udd1e", "\\ud83a\\udd1f", "\\ud83a\\udd20", "\\ud83a\\udd21", "\\ud83a\\udd22",
     "\\ud83a\\udd23", "\\ud83a\\udd24", "\\ud83a\\udd25", "\\ud83a\\udd26", "\\ud83a\\udd27",
     "\\ud83a\\udd28", "\\ud83a\\udd29", "\\ud83a\\udd2a", "\\ud83a\\udd2b", "\\ud83a\\udd2c",
     "\\ud83a\\udd2d", "\\ud83a\\udd2e", "\\ud83a\\udd2f", "\\ud83a\\udd30", "\\ud83a\\udd31",
     "\\ud83a\\udd32", "\\ud83a\\udd33", "\\ud83a\\udd34", "\\ud83a\\udd35", "\\ud83a\\udd36",
     "\\ud83a\\udd37", "\\ud83a\\udd38", "\\ud83a\\udd39", "\\ud83a\\udd3a", "\\ud83a\\udd3b",
     "\\ud83a\\udd3c", "\\ud83a\\udd3d", "\\ud83a\\udd3e", "\\ud83a\\udd3f", "\\ud83a\\udd40",
     "\\ud83a\\udd41", "\\ud83a\\udd42", "\\ud83a\\udd43", "\\ud83c\\udd30", "\\ud83c\\udd31",
     "\\ud83c\\udd32", "\\ud83c\\udd33", "\\ud83c\\udd34", "\\ud83c\\udd35", "\\ud83c\\udd36",
     "\\ud83c\\udd37", "\\ud83c\\udd38", "\\ud83c\\udd39", "\\ud83c\\udd3a", "\\ud83c\\udd3b",
     "\\ud83c\\udd3c", "\\ud83c\\udd3d", "\\ud83c\\udd3e", "\\ud83c\\udd3f", "\\ud83c\\udd40",
     "\\ud83c\\udd41", "\\ud83c\\udd42", "\\ud83c\\udd43", "\\ud83c\\udd44", "\\ud83c\\udd45",
     "\\ud83c\\udd46", "\\ud83c\\udd47", "\\ud83c\\udd48", "\\ud83c\\udd49", "\\ud83c\\udd50",
     "\\ud83c\\udd51", "\\ud83c\\udd52", "\\ud83c\\udd53", "\\ud83c\\udd54", "\\ud83c\\udd55",
     "\\ud83c\\udd56", "\\ud83c\\udd57", "\\ud83c\\udd58", "\\ud83c\\udd59", "\\ud83c\\udd5a",
     "\\ud83c\\udd5b", "\\ud83c\\udd5c", "\\ud83c\\udd5d", "\\ud83c\\udd5e", "\\ud83c\\udd5f",
     "\\ud83c\\udd60", "\\ud83c\\udd61", "\\ud83c\\udd62", "\\ud83c\\udd63", "\\ud83c\\udd64",
     "\\ud83c\\udd65", "\\ud83c\\udd66", "\\ud83c\\udd67", "\\ud83c\\udd68", "\\ud83c\\udd69",
     "\\ud83c\\udd70", "\\ud83c\\udd71", "\\ud83c\\udd72", "\\ud83c\\udd73", "\\ud83c\\udd74",
     "\\ud83c\\udd75", "\\ud83c\\udd76", "\\ud83c\\udd77", "\\ud83c\\udd78", "\\ud83c\\udd79",
     "\\ud83c\\udd7a", "\\ud83c\\udd7b", "\\ud83c\\udd7c", "\\ud83c\\udd7d", "\\ud83c\\udd7e",
     "\\ud83c\\udd7f", "\\ud83c\\udd80", "\\ud83c\\udd81", "\\ud83c\\udd82", "\\ud83c\\udd83",
     "\\ud83c\\udd84", "\\ud83c\\udd85", "\\ud83c\\udd86", "\\ud83c\\udd87", "\\ud83c\\udd88",
     "\\ud83c\\udd89"}

\* the capital sigma at position k ends a word: a cased character precedes
\* it and none follows, skipped characters aside
FinalSigma(s, k) ==
    /\ \E j \in 1..(k - 1) :
          /\ s[j] \in CasedNotIgnorable
          /\ \A m \in (j + 1)..(k - 1) : s[m] \in CaseIgnorable
    /\ ~\E j \in (k + 1)..Len(s) :
          /\ s[j] \in CasedNotIgnorable
          /\ \A m \in (k + 1)..(j - 1) : s[m] \in CaseIgnorable

RECURSIVE LowerFrom(_, _)
LowerFrom(s, k) ==
    IF k > Len(s) THEN <<>>
    ELSE (IF s[k] = "\\u03a3"
          THEN <<IF FinalSigma(s, k) THEN "\\u03c2" ELSE "\\u03c3">>
          ELSE LowerChar(s[k]))
         \o LowerFrom(s, k + 1)

\* str.lower()
Lower(s) == LowerFrom(s, 1)

\* str.replace(' ', '_'): the space character only
ReplaceSpace(s) == [k \in 1..Len(s) |-> IF s[k] = " " THEN "_" ELSE s[k]]

\* label_elem.text.strip().lower().replace(' ', '_')
NormLabel(raw) == Join(ReplaceSpace(Lower(Strip(raw))))

Criterion(label, value) == [label |-> label, value |-> value]

CritSeniority ==
    Criterion(<<"S", "e", "n", "i", "o", "r", "i", "t", "y", " ", "l", "e", "v", "e", "l">>, <<"Senior", " ">>)
CritEmployment ==
    Criterion(<<" ", "E", "m", "p", "l", "o", "y", "m", "e", "n", "t", " ", "t", "y", "p", "e">>,
              <<"Full-time">>)
CritDescription ==
    Criterion(<<"J", "o", "b", " ", "D", "e", "s", "c", "r", "i", "p", "t", "i", "o", "n">>, <<"see", " ", "above">>)
CritLocation == Criterion(<<"L", "o", "c", "a", "t", "i", "o", "n">>, <<"Remote">>)
CritIndustries == Criterion(<<"I", "n", "d", "u", "s", "t", "r", "i", "e", "s", "\t", "\\u00a0">>, <<"IT">>)
CritBroken ==
    Criterion(<<"E", "m", "p", "l", "o", "y", "m", "e", "n", "t", " ", "t", "y", "p", "e">>, Missing)

\* the first try block: job_type from the first insight span, if any
job_type_details(o) ==
    IF o.job_type_error \/ o.job_type_elems = <<>> THEN EmptyDict
    ELSE Put(EmptyDict, "job_type", StripText(o.job_type_elems[1]))

\* the second try block: the loop over criteria_elems stops at the first
\* element whose label or value is missing, keeping what it has stored
RECURSIVE criteria_details(_, _)
criteria_details(crits, acc) ==
    IF crits = <<>> THEN acc
    ELSE IF Head(crits).label = Missing \/ Head(crits).value = Missing THEN acc
    ELSE criteria_details(Tail(crits),
                          Put(acc, NormLabel(Head(crits).label), StripText(Head(crits).value)))

job_details(o) ==
    IF o.criteria_error THEN job_type_details(o)
    ELSE criteria_details(o.criteria, job_type_details(o))

DetailOutcome(kind, e, text, jte, jt, ce, crits) ==
    [kind |-> kind, e |-> e, text |-> text,
     job_type_error |-> jte, job_type_elems |-> jt,
     criteria_error |-> ce, criteria |-> crits]

DetailFailure(kind, e) == DetailOutcome(kind, e, <<>>, FALSE, <<>>, FALSE, <<>>)

DetailFound(text, jte, jt, ce, crits) == DetailOutcome("found", NoExc, text, jte, jt, ce, crits)

\* driver.get(None) raises
BadLinkExc == [type |-> "InvalidArgumentException", msg |-> "Message: invalid argument"]
\* job['job_title'], job['company'] or job['job_link'] on a record without
\* that key
KeyError(key) == [type |-> "KeyError", msg |-> "'" \o key \o "'"]

DetailFailures ==
    {DetailFailure("get_error", e) : e \in Exceptions}
    \cup {DetailFailure("wait_timeout", TimeoutExc)}
    \cup {DetailFailure("text_error", e) : e \in Exceptions}

\* the detail pages served during a run()
RunDetails ==
    {DetailFailure("get_error", DriverExc), DetailFailure("wait_timeout", TimeoutExc),
     DetailFound(<<"We", " ", "build">>, FALSE, <<>>, FALSE, <<CritSeniority>>)}

\* the detail pages served to a direct call of scrape_job_details
AnyDetails ==
    DetailFailures
    \cup {DetailFound(<<"We", " ", "build">>, FALSE, <<>>, FALSE, <<>>),
          DetailFound(<<" ", "We", " ", "hire", " ">>, FALSE, <<<<"Full-time">>>>, FALSE,
                      <<CritSeniority, CritEmployment>>),
          DetailFound(<<" ">>, FALSE, <<>>, FALSE, <<CritSeniority>>),
          DetailFound(<<"We", " ", "build">>, TRUE, <<>>, FALSE, <<CritSeniority, CritBroken>>),
          DetailFound(<<"We", " ", "build">>, FALSE, <<<<"Contract">>>>, TRUE, <<>>),
          DetailFound(<<"We", " ", "build">>, FALSE, <<>>, FALSE, <<CritDescription>>),
          DetailFound(<<"We", " ", "build">>, FALSE, <<>>, FALSE, <<CritDescription, CritBroken>>),
          DetailFound(<<"We", " ", "build">>, FALSE, <<>>, FALSE,
                      <<CritLocation, CritIndustries>>)}

\* one of the two inner try blocks of a found item ends in its bare
\* "except: pass": find_elements or .text raised, or a criteria element
\* lacks its label or value element
AuxFailed(o) ==
    /\ o.kind = "found"
    /\ \/ o.job_type_error
       \/ o.criteria_error
       \/ \E k \in 1..Len(o.criteria) :
              o.criteria[k].label = Missing \/ o.criteria[k].value = Missing

DetailOutcomes(ent) == IF ent = "run" THEN RunDetails ELSE AnyDetails

\* what the environment can answer for this record: a record without the
\* keys the loop reads, or with no link, fails before or at driver.get
DetailOutcomesFor(job, ent) ==
    IF "job_title" \notin DOMAIN job THEN {DetailFailure("key_error", KeyError("job_title"))}
    ELSE IF "company" \notin DOMAIN job THEN {DetailFailure("key_error", KeyError("company"))}
    ELSE IF "job_link" \notin DOMAIN job THEN {DetailFailure("key_error", KeyError("job_link"))}
    ELSE IF job.job_link = None THEN {DetailFailure("get_error", BadLinkExc)}
    ELSE DetailOutcomes(ent)

\* the item's outcome is caught by the inner "except TimeoutException"
DetailTimedOut(o) ==
    o.kind = "wait_timeout" \/ (o.kind = "text_error" /\ o.e.type = "TimeoutException")

\* the item's outcome reaches the outer "except Exception"
DetailRaised(o) ==
    o.kind \in {"get_error", "key_error"} \/ (o.kind = "text_error" /\ o.e.type # "TimeoutException")

\* f"[抓取错误: {str(e)}]"
error_marker(e) == ERROR_PREFIX \o e.msg \o ERROR_SUFFIX

\* job_details of the pages served, computed once; job_details_of(o) is
\* job_details(o) for every o
ServedJobDetails == [o \in RunDetails \cup AnyDetails |-> job_details(o)]

job_details_of(o) ==
    IF o \in DOMAIN ServedJobDetails THEN ServedJobDetails[o] ELSE job_details(o)

\* the record appended to detailed_jobs for one input record
detail_record(job, o) ==
    IF DetailRaised(o) THEN Put(job, "job_description", error_marker(o.e))
    ELSE IF DetailTimedOut(o) THEN Put(job, "job_description", FAIL_MARKER)
    ELSE Update(Put(job, "job_description", StripText(o.text)), job_details_of(o))

\* mutant of input_after: job_data = job, the writes go to the input record
input_after_aliased(job, o) == detail_record(job, o)

\* the input record after its iteration: job_data = job.copy() in each of
\* the three branches, so the writes to job_data leave job as it was
input_after(job, o) == job

(***************************************************************************)
(* run(): deduplication by job_id, first occurrence wins.                  *)
(***************************************************************************)
\* mutant of HasJobId: the membership test never finds the job_id
HasJobId_never(list, id) == FALSE

\* "job['job_id'] in unique_jobs"
HasJobId(list, id) == \E k \in 1..Len(list) : list[k].job_id = id

\* unique_jobs is a dict: list(unique_jobs.values()) is in insertion order
RECURSIVE unique_jobs(_, _)
unique_jobs(list, acc) ==
    IF list = <<>> THEN acc
    ELSE unique_jobs(Tail(list),
                     IF HasJobId(acc, Head(list).job_id) THEN acc ELSE Append(acc, Head(list)))

\* mutant of deduplicate: unique_jobs[job_id] = job without the membership
\* test, so the last record with a job_id replaces the first
RECURSIVE unique_jobs_overwrite(_, _)
unique_jobs_overwrite(list, acc) ==
    IF list = <<>> THEN acc
    ELSE unique_jobs_overwrite(Tail(list),
            IF HasJobId(acc, Head(list).job_id)
            THEN [k \in 1..Len(acc) |->
                    IF acc[k].job_id = Head(list).job_id THEN Head(list) ELSE acc[k]]
            ELSE Append(acc, Head(list)))

deduplicate_overwrite(list) == unique_jobs_overwrite(list, <<>>)

deduplicate(list) == unique_jobs(list, <<>>)

(***************************************************************************)
(* login(), load_cookies(), is_logged_in() as functions of the outcomes    *)
(* of the browser and file operations they perform.                        *)
(***************************************************************************)
\* is_logged_in(): "error" is driver.get of the feed page raising,
\* "find_error" find_elements raising after the delay
CheckOutcomes == {"in", "out", "error", "find_error"}

LoginEnvs ==
    [root : {"ok", "error"},        \* driver.get("https://www.linkedin.com")
     read : {"ok", "error"},        \* open + json.load of the file, int() of the expiries
     refresh : {"ok", "error"},     \* driver.refresh()
     check1 : CheckOutcomes,        \* is_logged_in() after the cookies
     form : {"ok", "error", "wait_error"},
         \* "error" is driver.get of the login page raising, "wait_error" one
         \* of the three waits, the typing or the click raising
     check2 : CheckOutcomes,        \* is_logged_in() after the form
     save : {"ok", "error", "write_error"}]
         \* save_cookies(): "error" is get_cookies or open raising,
         \* "write_error" json.dump raising after open(cookie_file, 'w')

\* mutant of login_handler: the credential branch has no try block
login_handler_form_unguarded(op) ==
    CASE op \in {"root", "read", "refresh"} -> "load_cookies"
      [] op \in {"check1", "check2"} -> "is_logged_in"
      [] op = "form" -> "none"
      [] op = "save" -> "save_cookies"

\* the try block that catches a failure of each operation:
\* load_cookies 141-168, is_logged_in 256-269, login 202-244, save_cookies 174-184
login_handler(op) ==
    CASE op \in {"root", "read", "refresh"} -> "load_cookies"
      [] op \in {"check1", "check2"} -> "is_logged_in"
      [] op = "form" -> "login"
      [] op = "save" -> "save_cookies"

\* int(cookie['expiry']) raises for a cookie of the list json.load returned
\* (an environment that does not list the cookies counts it under "read")
ExpiryFails(env) ==
    /\ "cookies" \in DOMAIN env
    /\ \E k \in 1..Len(env.cookies) : env.cookies[k].kind = "bad_expiry"

\* load_cookies(): False without navigating when the file is missing
load_cookies(file, env) ==
    /\ file # "absent" /\ env.root = "ok" /\ env.read = "ok"
    /\ ~ExpiryFails(env) /\ env.refresh = "ok"

\* the random_delay calls of load_cookies(): lines 144 and 161
load_cookies_delays(file, env) ==
    IF file = "absent" \/ env.root # "ok" THEN 0
    ELSE IF env.read # "ok" \/ ExpiryFails(env) \/ env.refresh # "ok" THEN 1
    ELSE 2

\* is_logged_in(): an exception counts as not logged in
is_logged_in(check) == check = "in"

\* the random_delay call of is_logged_in(): line 259, after driver.get
is_logged_in_delays(check) == IF check = "error" THEN 0 ELSE 1

CookieLogin(file, env) == load_cookies(file, env) /\ is_logged_in(env.check1)

\* mutant of FormNavigated: use_credentials is not consulted
FormNavigated_flag_ignored(cfg, file, env) ==
    /\ ~CookieLogin(file, env)
    /\ cfg.email # "" /\ cfg.password # ""

\* the credential branch is entered and reaches driver.get of the login page
FormNavigated(cfg, file, env) ==
    /\ ~CookieLogin(file, env)
    /\ cfg.use_credentials
    /\ cfg.email # "" /\ cfg.password # ""

\* the operations login() gets to, given the outcomes of the earlier ones
Reached(cfg, file, env, op) ==
    CASE op = "root" -> file # "absent"
      [] op = "read" -> file # "absent" /\ env.root = "ok"
      [] op = "refresh" -> file # "absent" /\ env.root = "ok" /\ env.read = "ok"
      [] op = "check1" -> load_cookies(file, env)
      [] op = "form" -> FormNavigated(cfg, file, env)
      [] op = "check2" -> FormNavigated(cfg, file, env) /\ env.form = "ok"
      [] op = "save" -> FormNavigated(cfg, file, env) /\ env.form = "ok" /\ env.check2 = "in"

LoginOps == {"root", "read", "refresh", "check1", "form", "check2", "save"}

\* an operation of login() fails outside every try block
LoginRaises(cfg, file, env) ==
    \E op \in LoginOps :
        /\ Reached(cfg, file, env, op)
        /\ env[op] \in {"error", "wait_error", "find_error", "write_error"}
        /\ login_handler(op) = "none"

\* mutant of login: loaded cookies are trusted without the is_logged_in() check
login_cookies_unverified(cfg, file, env) ==
    \/ load_cookies(file, env)
    \/ (FormNavigated(cfg, file, env) /\ env.form = "ok" /\ is_logged_in(env.check2))

\* the return value of login()
login(cfg, file, env) ==
    \/ CookieLogin(file, env)
    \/ (FormNavigated(cfg, file, env) /\ env.form = "ok" /\ is_logged_in(env.check2))

\* mutant of CookiesSaved: the cookies are saved after every successful login
CookiesSaved_on_any_login(cfg, file, env) ==
    login(cfg, file, env) /\ env.save = "ok"

\* save_cookies() is reached and writes the file
CookiesSaved(cfg, file, env) ==
    Reached(cfg, file, env, "save") /\ env.save = "ok"

\* the cookie file after login(): "saved" holds the session's cookies,
\* "partial" is the file open(cookie_file, 'w') left when json.dump raised
file_after_login(cfg, file, env) ==
    IF CookiesSaved(cfg, file, env) THEN "saved"
    ELSE IF Reached(cfg, file, env, "save") /\ env.save = "write_error" THEN "partial"
    ELSE file

\* the random_delay calls of the credential branch: lines 212 and 227
form_delays(form) ==
    CASE form = "error" -> 0
      [] form = "wait_error" -> 1
      [] form = "ok" -> 2

\* the random_delay calls of one login() call
login_delays(cfg, file, env) ==
    load_cookies_delays(file, env)
    + (IF Reached(cfg, file, env, "check1") THEN is_logged_in_delays(env.check1) ELSE 0)
    + (IF Reached(cfg, file, env, "form") THEN form_delays(env.form) ELSE 0)
    + (IF Reached(cfg, file, env, "check2") THEN is_logged_in_delays(env.check2) ELSE 0)

\* is_logged_in() as seen from outside: the feed page is requested, then the answer
CheckEvents(check) ==
    <<"get_feed", IF is_logged_in(check) THEN "logged_in" ELSE "not_logged_in">>

\* the browser and file operations of one login() call, in order
login_events(cfg, file, env) ==
    (IF Reached(cfg, file, env, "root") THEN <<"get_root">> ELSE <<>>)
    \o (IF Reached(cfg, file, env, "refresh") THEN <<"add_cookies", "refresh">> ELSE <<>>)
    \o (IF Reached(cfg, file, env, "check1") THEN CheckEvents(env.check1) ELSE <<>>)
    \o (IF Reached(cfg, file, env, "form") THEN <<"get_login">> ELSE <<>>)
    \o (IF Reached(cfg, file, env, "check2") THEN <<"submit">> \o CheckEvents(env.check2) ELSE <<>>)
    \o (IF Reached(cfg, file, env, "save") THEN <<"save_cookies">> ELSE <<>>)

(***************************************************************************)
(* load_cookies() cookie by cookie.                                        *)
(***************************************************************************)
\* a cookie of the file: "expiry" has an expiry key that int() accepts,
\* "bad_expiry" one that int() rejects (a word, null); add is the outcome
\* of driver.add_cookie
FileCookies == [kind : {"plain", "expiry", "bad_expiry"}, add : {"ok", "error"}]

CookieEnvs ==
    [root : {"ok", "error"},        \* driver.get("https://www.linkedin.com")
     read : {"ok", "error"},        \* open + json.load of the cookie file
     cookies : SeqsUpTo(FileCookies, MaxCookies),   \* the list json.load returned
     refresh : {"ok", "error"}]     \* driver.refresh()

\* one iteration of "for cookie in cookies": the expiry is made an int
\* outside the inner try, so a failure of int() leaves the iteration before
\* add_cookie; a failure of add_cookie is logged inside the loop
add_cookie_calls(c) ==
    IF c.kind = "bad_expiry" THEN <<"int_expiry">>
    ELSE (IF c.kind = "expiry" THEN <<"int_expiry">> ELSE <<>>)
         \o <<IF c.add = "ok" THEN "add_cookie" ELSE "add_cookie_error">>

\* the loop ends at the first cookie whose expiry int() rejects
RECURSIVE add_cookies_calls(_)
add_cookies_calls(cookies) ==
    IF cookies = <<>> THEN <<>>
    ELSE IF Head(cookies).kind = "bad_expiry" THEN add_cookie_calls(Head(cookies))
    ELSE add_cookie_calls(Head(cookies)) \o add_cookies_calls(Tail(cookies))

\* the browser and file operations and the log lines of load_cookies()
load_cookies_calls(file, env) ==
    IF file = "absent" THEN <<"no_cookie_file">>
    ELSE IF env.root = "error" THEN <<"get_root", "load_error">>
    ELSE IF env.read = "error" THEN <<"get_root", "read", "load_error">>
    ELSE IF ExpiryFails(env)
    THEN <<"get_root", "read">> \o add_cookies_calls(env.cookies) \o <<"load_error">>
    ELSE <<"get_root", "read">> \o add_cookies_calls(env.cookies) \o <<"refresh">>
         \o <<IF env.refresh = "ok" THEN "loaded" ELSE "load_error">>

(***************************************************************************)
(* helpers.retry_function(func, max_retries, delay, backoff, exceptions).  *)
(***************************************************************************)
\* what one call of func does: return, raise an exception of the listed
\* types, raise another exception
FuncOutcomes == {"ok", "listed", "unlisted"}

ListedExc == [type |-> "ConnectionError", msg |-> "reset"]
UnlistedExc == [type |-> "KeyError", msg |-> "'k'"]

\* the values func returns
FuncResults == {<<"first">>, <<"second">>}

\* the arguments of retry_function
RetryArgs == [max_retries : (0 - 1)..MaxRetries, delay : {0, 1, 3}, backoff : {1, 2}]

\* the wrapper when it is called: "mtries, mdelay = max_retries, delay"
Wrapper(args) ==
    [max_retries |-> args.max_retries, delay |-> args.delay, backoff |-> args.backoff,
     mtries |-> args.max_retries, mdelay |-> args.delay, log |-> <<>>]

\* no wrapper was made
NoRetry == Wrapper([max_retries |-> 0, delay |-> 0, backoff |-> 1])

\* entries of the wrapper's log: the n-th call of func with its outcome,
\* time.sleep(n)
CallEvent(n, out) == [op |-> "call", n |-> n, out |-> out]
SleepEvent(n) == [op |-> "sleep", n |-> n, out |-> ""]

\* mutant of next_delay: the delay is not multiplied
next_delay_constant(mdelay, backoff) == mdelay

\* "mdelay *= backoff"
next_delay(mdelay, backoff) == mdelay * backoff

(***************************************************************************)
(* Configurations.                                                         *)
(***************************************************************************)
Config(kws, locs, n, use, email, password) ==
    [keywords |-> kws, locations |-> locs, pages_per_search |-> n,
     use_credentials |-> use, email |-> email, password |-> password]

KeywordLists == {s \in SeqsUpTo({Python, ML}, MaxSearch) : s = <<>> \/ s[1] = Python}
LocationLists == {s \in SeqsUpTo({US, UK}, MaxSearch) : s = <<>> \/ s[1] = US}

Credentials ==
    {<<FALSE, "", "">>, <<FALSE, "me@x.org", "pw">>, <<TRUE, "me@x.org", "pw">>, <<TRUE, "", "pw">>}

\* the configurations of a run: at most MaxSearch listing pages are requested
RunConfigs ==
    {Config(kws, locs, n, c[1], c[2], c[3]) :
        kws \in KeywordLists, locs \in LocationLists, n \in 0..MaxPages, c \in Credentials}

SearchLoads(cfg) ==
    Len(cfg.keywords) * Len(cfg.locations) * cfg.pages_per_search

\* the configurations run() is started with: at most MaxSearch listing
\* pages, and one when the credential form can be reached
RunInputs ==
    {c \in RunConfigs :
        SearchLoads(c) <= (IF c.use_credentials /\ c.email # "" THEN 1 ELSE MaxSearch)}

DefaultConfig == Config(<<Python>>, <<US>>, 1, FALSE, "", "")

(***************************************************************************)
(* State.                                                                  *)
(***************************************************************************)
VARIABLES
    config,               \* self.config
    entry,                \* the method the caller invoked
    site,                 \* the site the session talks to, see Served
    retry,                \* helpers.retry_function: arguments, locals and calls of a wrapper
    pc,                   \* position of the call in progress
    driver,               \* self.driver: 0 is None, otherwise a session
    sessions,             \* the browser sessions created so far
    run_session,          \* the session this run() created, 0 if none
    runs,                 \* run() calls made on the crawler so far
    wait,                 \* self.wait: 0 is None, otherwise the session it polls
    setup_log,            \* the calls setup_driver() made on the new session
    clock,                \* time, in random_delay calls
    cookie_file,          \* the cookie file on disk
    login_calls,          \* login() calls of this run
    login_ret,            \* what login() returned
    login_log,            \* browser and file operations of login()
    kw, lc,               \* run(): positions of the two for loops
    keyword, location, pages,     \* arguments of scrape_job_listings
    page,                 \* scrape_job_listings: loop variable
    search_url,           \* scrape_job_listings: the URL of the page being loaded
    job_listings,         \* scrape_job_listings: local result list
    page_log,             \* page loads and inter-page delays of this call
    all_job_listings,     \* run(): combined list
    pair_log,             \* run(): searches and inter-combination delays
    unique_job_listings,  \* run(): deduplicated list, argument of scrape_job_details
    i,                    \* scrape_job_details: loop index
    detailed_jobs,        \* scrape_job_details: local result list
    item_log,             \* detail page loads and inter-item delays of this call
    job_data,             \* self.job_data
    exc,                  \* exception in flight
    outcome,              \* how the call ended: "none", "returned", "raised"
    result                \* the returned list

sessVars == <<driver, sessions, run_session, runs, wait, setup_log>>
loginVars == <<cookie_file, login_calls, login_ret, login_log>>
listVars == <<keyword, location, pages, page, search_url, job_listings, page_log>>
searchVars == <<kw, lc, all_job_listings, pair_log>>
detailVars == <<unique_job_listings, i, detailed_jobs, item_log>>
endVars == <<job_data, exc, outcome, result>>

vars == <<config, entry, site, retry, pc, clock, sessVars, loginVars, listVars, searchVars, detailVars, endVars>>

LiveSession == [state |-> "live", quits |-> 0, late_ops |-> 0]

\* a driver operation on session d
use(sess, d) ==
    IF d = 0 THEN sess
    ELSE [sess EXCEPT ![d].late_ops = IF sess[d].state = "quit" THEN @ + 1 ELSE @]

\* driver.quit() on session d
quit(sess, d) == [sess EXCEPT ![d].state = "quit", ![d].quits = @ + 1]

\* an entry of page_log or item_log: "get" is driver.get of page or item n,
\* "timeout" the "except TimeoutException" handler, "error" the
\* "except Exception" handler, "delay" the delay that follows page or item n,
\* "text" the description extracted, "aux_error" a bare "except: pass" taken
Event(op, n) == [op |-> op, n |-> n]

\* the same with the text the code logs or extracts at that point
EventMsg(op, n, msg) == [op |-> op, n |-> n, msg |-> msg]

\* the entry of page_log for a page whose results container was found:
\* items are the li elements find_elements returned
FoundEvent(n, items) == [op |-> "found", n |-> n, items |-> items]

(***************************************************************************)
(* Initial states.  InitObject is the crawler after __init__; the          *)
(* specifications differ in the method the caller invokes on it.           *)
(***************************************************************************)
InitObject ==
    /\ clock = 0
    /\ login_calls = 0 /\ login_ret = FALSE /\ login_log = <<>>
    /\ kw = 1 /\ lc = 1
    /\ page = 1 /\ search_url = <<>>
    /\ job_listings = <<>> /\ page_log = <<>>
    /\ all_job_listings = <<>> /\ pair_log = <<>>
    /\ i = 0
    /\ detailed_jobs = <<>> /\ item_log = <<>>
    /\ job_data = <<>>
    /\ exc = NoExc /\ outcome = "none" /\ result = <<>>

\* crawler = LinkedInCrawler(config), run() not yet called
Init ==
    /\ InitObject
    /\ entry = "run" /\ site = "run" /\ retry = NoRetry
    /\ config \in RunInputs
    /\ cookie_file \in {"absent", "old"}
    /\ driver = 0 /\ sessions = <<>> /\ run_session = 0 /\ runs = 0
    /\ wait = 0 /\ setup_log = <<>>
    /\ keyword = <<>> /\ location = <<>> /\ pages = 0
    /\ unique_job_listings = <<>>
    /\ pc = "idle"

(***************************************************************************)
(* run(): setup_driver.                                                    *)
(***************************************************************************)
\* the run() calls a scenario makes on the crawler
RunsOn(st) == IF st = "rerun" THEN MaxRuns ELSE 1

\* the call of run(), on a new crawler or after an earlier run() ended: the
\* locals of run() and the logs of the call start afresh, the fields of the
\* crawler (driver, wait, job_data) and the cookie file are as the earlier
\* run left them
Run ==
    /\ pc \in {"idle", "done"} /\ entry = "run"
    /\ runs < RunsOn(site)
    /\ runs' = runs + 1
    /\ pc' = "setup_driver"
    /\ run_session' = 0 /\ setup_log' = <<>>
    /\ login_calls' = 0 /\ login_ret' = FALSE /\ login_log' = <<>>
    /\ kw' = 1 /\ lc' = 1
    /\ keyword' = <<>> /\ location' = <<>> /\ pages' = 0
    /\ page' = 1 /\ search_url' = <<>>
    /\ job_listings' = <<>> /\ page_log' = <<>>
    /\ all_job_listings' = <<>> /\ pair_log' = <<>>
    /\ unique_job_listings' = <<>> /\ i' = 0
    /\ detailed_jobs' = <<>> /\ item_log' = <<>>
    /\ exc' = NoExc /\ outcome' = "none" /\ result' = <<>>
    /\ UNCHANGED <<config, entry, site, retry, clock, driver, sessions, wait, cookie_file, job_data>>

\* setup_driver(): "start_error" is an exception up to and including
\* uc.Chrome(options=options); "setup_error" one raised by
\* set_page_load_timeout after self.driver is assigned
SetupOutcomes == {"ok", "start_error", "setup_error"}

\* setup_anti_detection(driver): "stealth_error" is an exception raised by
\* stealth(...), "js_error" one raised by driver.execute_script in
\* apply_js_evasions
AntiOutcomes == {"ok", "stealth_error", "js_error"}

\* the outcomes the anti-detection layer has on a site: it fails on "setup"
AntiOn(st) == IF st = "setup" THEN AntiOutcomes ELSE {"ok"}

AntiExc == [type |-> "JavascriptException", msg |-> "Message: javascript error"]

\* apply_js_evasions(driver): the calls made, the last being the handler's
\* log when execute_script raised
apply_js_evasions(a) ==
    IF a = "js_error" THEN <<"execute_script", "js_evasions_error">> ELSE <<"execute_script">>

\* the calls setup_anti_detection(driver) makes: stealth, then
\* apply_js_evasions unless stealth raised, in one try block whose handler
\* logs
anti_detection_calls(a) ==
    IF a = "stealth_error" THEN <<"stealth", "anti_detection_error">>
    ELSE <<"stealth">> \o apply_js_evasions(a)

\* mutant of setup_anti_detection: the handler re-raises
setup_anti_detection_raises(a) == IF a = "stealth_error" THEN AntiExc ELSE NoExc

\* the exception that leaves setup_anti_detection(driver): its whole body is
\* in a try block whose "except Exception" handler logs
setup_anti_detection(a) == NoExc

\* the calls setup_driver() makes once uc.Chrome returned, for outcome o of
\* setup_driver and a of the anti-detection layer
setup_calls(o, a) ==
    <<"Chrome">> \o anti_detection_calls(a)
    \o (IF setup_anti_detection(a) # NoExc THEN <<>>
        ELSE IF o = "ok" THEN <<"set_page_load_timeout", "WebDriverWait">>
        ELSE <<"set_page_load_timeout">>)

\* mutant of after_setup: a failure of setup_driver() is swallowed
after_setup_swallowed(o) == "login"

\* where run() continues after setup_driver(): its except clause re-raises
after_setup(o) == IF o = "ok" THEN "login" ELSE "except"

SetupDriver ==
    /\ pc = "setup_driver"
    /\ \E o \in SetupOutcomes, a \in AntiOn(site) :
        IF o = "start_error"
        THEN /\ UNCHANGED sessVars
             /\ exc' = StartExc
             /\ pc' = after_setup(o)
        ELSE /\ sessions' = Append(sessions, LiveSession)
             /\ driver' = Len(sessions) + 1
             /\ run_session' = Len(sessions) + 1
             /\ setup_log' = setup_calls(o, a)
             /\ UNCHANGED runs
             /\ IF setup_anti_detection(a) # NoExc
                THEN /\ exc' = setup_anti_detection(a)
                     /\ pc' = after_setup("setup_error")
                     /\ UNCHANGED wait
                ELSE /\ exc' = IF o = "ok" THEN NoExc ELSE StartExc
                     /\ pc' = after_setup(o)
                     /\ wait' = IF o = "ok" THEN Len(sessions) + 1 ELSE wait
    /\ UNCHANGED <<config, entry, site, retry, clock, loginVars, listVars, searchVars, detailVars,
                   job_data, outcome, result>>

(***************************************************************************)
(* run(): login.                                                           *)
(***************************************************************************)
\* mutant of after_login: a failed login skips the searches
after_login_skips_search(ret) == IF ret THEN "search" ELSE "dedup"

\* where run() continues after login(): the return value is not looked at
after_login(ret) == "search"

Login ==
    /\ pc = "login"
    /\ \E env \in LoginEnvs :
        /\ login_log' = login_events(config, cookie_file, env)
        /\ cookie_file' = file_after_login(config, cookie_file, env)
        /\ clock' = clock + login_delays(config, cookie_file, env)
        /\ IF LoginRaises(config, cookie_file, env)
           THEN /\ exc' = DriverExc
                /\ pc' = "except"
                /\ UNCHANGED login_ret
           ELSE /\ login_ret' = login(config, cookie_file, env)
                /\ pc' = after_login(login(config, cookie_file, env))
                /\ UNCHANGED exc
    /\ login_calls' = login_calls + 1
    /\ sessions' = use(sessions, driver)
    /\ UNCHANGED <<config, entry, site, retry, driver, run_session, runs, wait, setup_log, listVars, searchVars, detailVars,
                   job_data, outcome, result>>

(***************************************************************************)
(* run(): the loops over keywords and locations.                           *)
(***************************************************************************)
\* the loop headers: the next (keyword, location) pair, or the end of the loops
Search ==
    /\ pc = "search"
    /\ IF kw <= Len(config.keywords) /\ config.locations # <<>>
       THEN /\ keyword' = config.keywords[kw]
            /\ location' = config.locations[lc]
            /\ pages' = config.pages_per_search
            /\ page' = 1
            /\ search_url' = <<>>
            /\ job_listings' = <<>>
            /\ page_log' = <<>>
            /\ pc' = IF config.pages_per_search >= 1 THEN "listing_page" ELSE "listing_return"
       ELSE /\ pc' = "dedup"
            /\ UNCHANGED listVars
    /\ UNCHANGED <<config, entry, site, retry, clock, sessVars, loginVars, searchVars, detailVars, endVars>>

(***************************************************************************)
(* scrape_job_listings: one iteration of the loop over pages.              *)
(***************************************************************************)
\* mutant of next_page: a page skipped on timeout is loaded again
next_page_retry(p, o) == IF PageAborts(o) \/ PageSkipped(o) THEN p ELSE p + 1

\* the loop variable after this iteration: "continue" and the end of the body
\* both go on to the next page, the outer handler leaves the loop
next_page(p, o) == IF PageAborts(o) THEN p ELSE p + 1

ListingPage ==
    /\ pc = "listing_page"
    /\ \E o \in PageOutcomes(entry, Served(site)) : \E rnds \in RandDraws(o.items) :
       \E times \in TimeDraws(o.items, Drifts(site)) :
       \E escaped \in (IF PageAborts(o) \/ PageSkipped(o) THEN AfterScreenshot ELSE {NoExc}) :
        \* both handlers call take_screenshot; an exception of the call in the
        \* timeout handler reaches the outer handler, one of the call in the
        \* outer handler leaves scrape_job_listings
        LET settled == IF o.kind = "get_error" THEN clock ELSE clock + 1
            found == extract_items(o.items, rnds, times, keyword, location, settled)
            delayed == ~PageAborts(o) /\ ~PageSkipped(o) /\ page < pages
        IN /\ job_listings' = job_listings \o found
           /\ page_log' = page_log \o <<Event("get", page)>>
                          \o (IF PageSkipped(o) THEN <<Event("timeout", page)>> ELSE <<>>)
                          \o (IF PageAborts(o) THEN <<Event("error", page)>> ELSE <<>>)
                          \o (IF o.kind = "found" THEN <<FoundEvent(page, o.items)>> ELSE <<>>)
                          \o (IF delayed THEN <<Event("delay", page)>> ELSE <<>>)
           /\ clock' = IF delayed THEN settled + 1 ELSE settled
           /\ search_url' = construct_search_url(keyword, location, page)
           /\ page' = next_page(page, o)
           /\ exc' = escaped
           /\ outcome' = IF escaped # NoExc /\ entry # "run" THEN "raised" ELSE outcome
           /\ pc' = IF escaped # NoExc THEN (IF entry = "run" THEN "except" ELSE "done")
                    ELSE IF PageAborts(o) \/ next_page(page, o) > pages
                    THEN "listing_return" ELSE "listing_page"
    /\ sessions' = use(sessions, driver)
    /\ UNCHANGED <<config, entry, site, retry, driver, run_session, runs, wait, setup_log, loginVars, keyword, location, pages, searchVars,
                   detailVars, job_data, result>>

\* inter-combination delay: "keyword != keywords[-1] or location != locations[-1]"
SearchDelayed(cfg, kwd, loc) ==
    kwd # cfg.keywords[Len(cfg.keywords)] \/ loc # cfg.locations[Len(cfg.locations)]

\* run(): scrape_job_listings returned
SearchReturn ==
    /\ pc = "listing_return" /\ entry = "run"
    /\ all_job_listings' = all_job_listings \o job_listings
    /\ pair_log' = pair_log \o <<[op |-> "scrape", keyword |-> keyword, location |-> location]>>
                   \o (IF SearchDelayed(config, keyword, location)
                       THEN <<[op |-> "delay", keyword |-> keyword, location |-> location]>>
                       ELSE <<>>)
    /\ clock' = IF SearchDelayed(config, keyword, location) THEN clock + 1 ELSE clock
    /\ IF lc < Len(config.locations)
       THEN lc' = lc + 1 /\ kw' = kw
       ELSE lc' = 1 /\ kw' = kw + 1
    /\ pc' = "search"
    /\ UNCHANGED <<config, entry, site, retry, sessVars, loginVars, listVars, detailVars, endVars>>

\* scrape_job_listings called by itself returns to its caller
ListingsReturned ==
    /\ pc = "listing_return" /\ entry = "scrape_job_listings"
    /\ result' = job_listings
    /\ outcome' = "returned"
    /\ pc' = "done"
    /\ UNCHANGED <<config, entry, site, retry, clock, sessVars, loginVars, listVars, searchVars,
                   detailVars, job_data, exc>>

(***************************************************************************)
(* run(): deduplication.                                                   *)
(***************************************************************************)
Dedup ==
    /\ pc = "dedup"
    /\ unique_job_listings' = deduplicate(all_job_listings)
    /\ i' = 0
    /\ detailed_jobs' = <<>>
    /\ item_log' = <<>>
    /\ pc' = IF deduplicate(all_job_listings) # <<>> THEN "detail_item" ELSE "details_return"
    /\ UNCHANGED <<config, entry, site, retry, clock, sessVars, loginVars, listVars, searchVars, endVars>>

(***************************************************************************)
(* scrape_job_details: one iteration of the loop over the listings.        *)
(* i is the enumerate index, the record is unique_job_listings[i + 1].     *)
(***************************************************************************)
\* mutant of append_detail: the "except Exception" handler does not append
append_detail_dropping(list, job, o) ==
    IF DetailRaised(o) THEN list ELSE Append(list, detail_record(job, o))

\* detailed_jobs after the iteration for job: lines 462, 471 and 484 each append
append_detail(list, job, o) == Append(list, detail_record(job, o))

DetailItem ==
    /\ pc = "detail_item"
    /\ LET job == unique_job_listings[i + 1]
           n == Len(unique_job_listings)
       IN \E o \in DetailOutcomesFor(job, entry) :
          \* take_screenshot is called in both handlers, before the append
          \E escaped \in (IF DetailTimedOut(o) \/ DetailRaised(o) THEN AfterScreenshot ELSE {NoExc}) :
           LET settled == IF o.kind \in {"get_error", "key_error"} THEN clock ELSE clock + 1
               delayed == ~DetailRaised(o) /\ i < n - 1
           IN /\ detailed_jobs' = IF escaped # NoExc THEN detailed_jobs
                                   ELSE append_detail(detailed_jobs, job, o)
              /\ unique_job_listings' =
                    IF escaped # NoExc THEN unique_job_listings
                    ELSE [unique_job_listings EXCEPT ![i + 1] = input_after(job, o)]
              /\ item_log' = item_log
                             \o (IF o.kind # "key_error" THEN <<EventMsg("get", i, "")>> ELSE <<>>)
                             \o (IF o.kind = "found"
                                 THEN <<EventMsg("text", i, StripText(o.text))>> ELSE <<>>)
                             \o (IF AuxFailed(o) THEN <<EventMsg("aux_error", i, "")>> ELSE <<>>)
                             \o (IF DetailTimedOut(o) THEN <<EventMsg("timeout", i, "")>> ELSE <<>>)
                             \o (IF DetailRaised(o) THEN <<EventMsg("error", i, o.e.msg)>> ELSE <<>>)
                             \o (IF delayed THEN <<EventMsg("delay", i, "")>> ELSE <<>>)
              /\ clock' = IF delayed THEN settled + 1 ELSE settled
              /\ i' = i + 1
              /\ exc' = escaped
              /\ outcome' = IF escaped # NoExc /\ entry # "run" THEN "raised" ELSE outcome
              /\ pc' = IF escaped # NoExc THEN (IF entry = "run" THEN "except" ELSE "done")
                       ELSE IF i + 1 < n THEN "detail_item" ELSE "details_return"
    /\ sessions' = use(sessions, driver)
    /\ UNCHANGED <<config, entry, site, retry, driver, run_session, runs, wait, setup_log, loginVars, listVars, searchVars,
                   job_data, result>>

\* run(): scrape_job_details returned; self.job_data = detailed_jobs; return
RunReturn ==
    /\ pc = "details_return" /\ entry = "run"
    /\ job_data' = detailed_jobs
    /\ result' = detailed_jobs
    /\ pc' = "finally"
    /\ UNCHANGED <<config, entry, site, retry, clock, sessVars, loginVars, listVars, searchVars,
                   detailVars, exc, outcome>>

\* scrape_job_details called by itself returns to its caller
DetailsReturned ==
    /\ pc = "details_return" /\ entry = "scrape_job_details"
    /\ result' = detailed_jobs
    /\ outcome' = "returned"
    /\ pc' = "done"
    /\ UNCHANGED <<config, entry, site, retry, clock, sessVars, loginVars, listVars, searchVars,
                   detailVars, job_data, exc>>

(***************************************************************************)
(* run(): the except and finally clauses.                                  *)
(***************************************************************************)
\* "except Exception as e": log, then raise
RunExcept ==
    /\ pc = "except"
    /\ pc' = "finally"
    /\ UNCHANGED <<config, entry, site, retry, clock, sessVars, loginVars, listVars, searchVars,
                   detailVars, endVars>>

\* mutant of release: the session is not quit
release_skipped(sess, d) == sess

\* "if self.driver: self.driver.quit()"
release(sess, d) == IF d # 0 THEN quit(sess, d) ELSE sess

\* the finally clause, then the return or the re-raise reaches the caller
RunFinally ==
    /\ pc = "finally"
    /\ sessions' = release(sessions, driver)
    /\ outcome' = IF exc = NoExc THEN "returned" ELSE "raised"
    /\ pc' = "done"
    /\ UNCHANGED <<config, entry, site, retry, clock, driver, run_session, runs, wait, setup_log, loginVars, listVars, searchVars,
                   detailVars, job_data, exc, result>>

Next ==
    \/ Run
    \/ SetupDriver
    \/ Login
    \/ Search
    \/ ListingPage
    \/ SearchReturn
    \/ Dedup
    \/ DetailItem
    \/ RunReturn
    \/ RunExcept
    \/ RunFinally

Spec == Init /\ [][Next]_vars

(***************************************************************************)
(* scrape_job_listings(keyword, location, pages) called on a crawler whose *)
(* session is live.                                                        *)
(***************************************************************************)
InitListings ==
    /\ InitObject
    /\ entry = "scrape_job_listings" /\ site = "any" /\ retry = NoRetry
    /\ config = DefaultConfig
    /\ cookie_file = "absent"
    /\ driver = 1 /\ sessions = <<LiveSession>> /\ run_session = 0 /\ runs = 0
    /\ wait = 1 /\ setup_log = setup_calls("ok", "ok")
    /\ keyword \in {Python} /\ location \in {US, NewYork}
    /\ pages \in 0..MaxPages
    /\ unique_job_listings = <<>>
    /\ pc = IF pages >= 1 THEN "listing_page" ELSE "listing_return"

NextListings ==
    \/ ListingPage
    \/ ListingsReturned

SpecListings == InitListings /\ [][NextListings]_vars

(***************************************************************************)
(* scrape_job_listings(keyword, location, pages) with pages up to          *)
(* MaxPaging, on a site that serves the pages of a run: calls long enough  *)
(* for a page to fail after another page was skipped and before the last.  *)
(***************************************************************************)
InitPaging ==
    /\ InitObject
    /\ entry = "scrape_job_listings" /\ site = "paging" /\ retry = NoRetry
    /\ config = DefaultConfig
    /\ cookie_file = "absent"
    /\ driver = 1 /\ sessions = <<LiveSession>> /\ run_session = 0 /\ runs = 0
    /\ wait = 1 /\ setup_log = setup_calls("ok", "ok")
    /\ keyword = Python /\ location = US
    /\ pages \in 0..MaxPaging
    /\ unique_job_listings = <<>>
    /\ pc = IF pages >= 1 THEN "listing_page" ELSE "listing_return"

SpecPaging == InitPaging /\ [][NextListings]_vars

(***************************************************************************)
(* scrape_job_details(job_listings) called on a crawler whose session is   *)
(* live, for input lists of at most MaxLen records.                        *)
(***************************************************************************)
RecA == listing_record(ItemA, Python, US, 1, 1, RandLo)
RecNoHref == listing_record(ItemNoHref, Python, US, 2, 3, RandHi)
\* a record that is not a listing record
RecBare == [job_id |-> "404", job_link |-> ItemA.link]

\* a record with a title and a link and no company
RecNoCompany == [k \in DOMAIN RecA \ {"company"} |-> RecA[k]]

InputRecords == {RecA, RecNoHref, RecBare, RecNoCompany}

InitDetails ==
    /\ InitObject
    /\ entry = "scrape_job_details" /\ site = "none" /\ retry = NoRetry
    /\ config = DefaultConfig
    /\ cookie_file = "absent"
    /\ driver = 1 /\ sessions = <<LiveSession>> /\ run_session = 0 /\ runs = 0
    /\ wait = 1 /\ setup_log = setup_calls("ok", "ok")
    /\ keyword = <<>> /\ location = <<>> /\ pages = 0
    /\ unique_job_listings \in SeqsUpTo(InputRecords, MaxLen)
    /\ pc = IF unique_job_listings # <<>> THEN "detail_item" ELSE "details_return"

NextDetails ==
    \/ DetailItem
    \/ DetailsReturned

SpecDetails == InitDetails /\ [][NextDetails]_vars

(***************************************************************************)
(* run() from the point where setup_driver() has returned, for a           *)
(* configuration without credentials and no cookie file; the site serves   *)
(* the pages of the end-to-end scenario, which has two listing pages.       *)
(***************************************************************************)
ScrapeConfigs ==
    {c \in RunConfigs : ~c.use_credentials /\ c.email = "" /\ SearchLoads(c) <= 2}

InitScrape ==
    /\ InitObject
    /\ entry = "run" /\ site = "scenario" /\ retry = NoRetry
    /\ config \in ScrapeConfigs
    /\ cookie_file = "absent"
    /\ driver = 1 /\ sessions = <<LiveSession>> /\ run_session = 1 /\ runs = 1
    /\ wait = 1 /\ setup_log = setup_calls("ok", "ok")
    /\ keyword = <<>> /\ location = <<>> /\ pages = 0
    /\ unique_job_listings = <<>>
    /\ pc = "login"

NextScrape ==
    \/ Login
    \/ Search
    \/ ListingPage
    \/ SearchReturn
    \/ Dedup
    \/ DetailItem
    \/ RunReturn
    \/ RunFinally

SpecScrape == InitScrape /\ [][NextScrape]_vars

(***************************************************************************)
(* run() on a site where the anti-detection layer can fail.                *)
(***************************************************************************)
SetupConfigs == {c \in RunConfigs : SearchLoads(c) <= 1}

InitSetup ==
    /\ InitObject
    /\ entry = "run" /\ site = "setup" /\ retry = NoRetry
    /\ config \in SetupConfigs
    /\ cookie_file \in {"absent", "old"}
    /\ driver = 0 /\ sessions = <<>> /\ run_session = 0 /\ runs = 0
    /\ wait = 0 /\ setup_log = <<>>
    /\ keyword = <<>> /\ location = <<>> /\ pages = 0
    /\ unique_job_listings = <<>>
    /\ pc = "idle"

SpecSetup == InitSetup /\ [][Next]_vars

(***************************************************************************)
(* construct_search_url(keyword, location, page) called by itself.         *)
(***************************************************************************)
UrlTexts == {<<>>, Python, NewYork, DataEngineer, UnitedStates, Padded}

InitUrl ==
    /\ InitObject
    /\ entry = "construct_search_url" /\ site = "none" /\ retry = NoRetry
    /\ config = DefaultConfig
    /\ cookie_file = "absent"
    /\ driver = 0 /\ sessions = <<>> /\ run_session = 0 /\ runs = 0
    /\ wait = 0 /\ setup_log = <<>>
    /\ keyword \in UrlTexts /\ location \in UrlTexts
    /\ pages = 0
    /\ unique_job_listings = <<>>
    /\ pc = "construct_search_url"

ConstructSearchUrl ==
    /\ pc = "construct_search_url"
    /\ \E p \in 1..(MaxPages + 1) :
        /\ page' = p
        /\ search_url' = construct_search_url(keyword, location, p)
        /\ result' = construct_search_url(keyword, location, p)
    /\ outcome' = "returned"
    /\ pc' = "done"
    /\ UNCHANGED <<config, entry, site, retry, clock, sessVars, loginVars, keyword, location, pages,
                   job_listings, page_log, searchVars, detailVars, job_data, exc>>

NextUrl == ConstructSearchUrl

SpecUrl == InitUrl /\ [][NextUrl]_vars

(***************************************************************************)
(* run() called more than once on the same crawler.                        *)
(***************************************************************************)
InitRuns ==
    /\ InitObject
    /\ entry = "run" /\ site = "rerun" /\ retry = NoRetry
    /\ config = DefaultConfig
    /\ cookie_file \in {"absent", "old"}
    /\ driver = 0 /\ sessions = <<>> /\ run_session = 0 /\ runs = 0
    /\ wait = 0 /\ setup_log = <<>>
    /\ keyword = <<>> /\ location = <<>> /\ pages = 0
    /\ unique_job_listings = <<>>
    /\ pc = "idle"

SpecRuns == InitRuns /\ [][Next]_vars

(***************************************************************************)
(* A wrapper made by retry_function is called.                             *)
(***************************************************************************)
InitRetry ==
    /\ InitObject
    /\ entry = "retry_function" /\ site = "none"
    /\ retry \in {Wrapper(args) : args \in RetryArgs}
    /\ config = DefaultConfig
    /\ cookie_file = "absent"
    /\ driver = 0 /\ sessions = <<>> /\ run_session = 0 /\ runs = 0
    /\ wait = 0 /\ setup_log = <<>>
    /\ keyword = <<>> /\ location = <<>> /\ pages = 0
    /\ unique_job_listings = <<>>
    /\ pc = "retry_loop"

\* one iteration of "while mtries > 0"
RetryAttempt ==
    /\ pc = "retry_loop"
    /\ retry.mtries > 0
    /\ LET n == Len(SelectSeq(retry.log, LAMBDA e : e.op = "call")) + 1
       IN \E o \in FuncOutcomes, v \in FuncResults :
           /\ o # "ok" => v = <<"first">>
           /\ CASE o = "ok" ->
                    /\ retry' = [retry EXCEPT !.log = Append(@, CallEvent(n, o))]
                    /\ result' = v /\ outcome' = "returned" /\ pc' = "done"
                    /\ UNCHANGED <<exc, clock>>
                [] o = "unlisted" ->
                    /\ retry' = [retry EXCEPT !.log = Append(@, CallEvent(n, o))]
                    /\ exc' = UnlistedExc /\ outcome' = "raised" /\ pc' = "done"
                    /\ UNCHANGED <<result, clock>>
                [] o = "listed" /\ retry.mtries - 1 = 0 ->
                    /\ retry' = [retry EXCEPT !.log = Append(@, CallEvent(n, o)),
                                              !.mtries = @ - 1]
                    /\ exc' = ListedExc /\ outcome' = "raised" /\ pc' = "done"
                    /\ UNCHANGED <<result, clock>>
                [] OTHER ->
                    /\ retry' = [retry EXCEPT
                                    !.log = @ \o <<CallEvent(n, o), SleepEvent(retry.mdelay)>>,
                                    !.mtries = @ - 1,
                                    !.mdelay = next_delay(@, retry.backoff)]
                    /\ clock' = clock + retry.mdelay
                    /\ UNCHANGED <<exc, outcome, result, pc>>
    /\ UNCHANGED <<config, entry, site, sessVars, loginVars, listVars, searchVars, detailVars,
                   job_data>>

\* the loop is not entered: the wrapper falls off its end and returns None
RetryExit ==
    /\ pc = "retry_loop"
    /\ retry.mtries <= 0
    /\ result' = None /\ outcome' = "returned" /\ pc' = "done"
    /\ UNCHANGED <<config, entry, site, retry, clock, sessVars, loginVars, listVars, searchVars,
                   detailVars, job_data, exc>>

NextRetry ==
    \/ RetryAttempt
    \/ RetryExit

SpecRetry == InitRetry /\ [][NextRetry]_vars

(***************************************************************************)
(* load_cookies() called on a crawler whose session is live.               *)
(***************************************************************************)
InitCookies ==
    /\ InitObject
    /\ entry = "load_cookies" /\ site = "none" /\ retry = NoRetry
    /\ config = DefaultConfig
    /\ cookie_file \in {"absent", "old"}
    /\ driver = 1 /\ sessions = <<LiveSession>> /\ run_session = 0 /\ runs = 0
    /\ wait = 1 /\ setup_log = setup_calls("ok", "ok")
    /\ keyword = <<>> /\ location = <<>> /\ pages = 0
    /\ unique_job_listings = <<>>
    /\ pc = "load_cookies"

LoadCookies ==
    /\ pc = "load_cookies"
    /\ \E env \in CookieEnvs :
        /\ login_log' = load_cookies_calls(cookie_file, env)
        /\ result' = load_cookies(cookie_file, env)
        /\ clock' = clock + load_cookies_delays(cookie_file, env)
    /\ sessions' = IF cookie_file = "absent" THEN sessions ELSE use(sessions, driver)
    /\ outcome' = "returned"
    /\ pc' = "done"
    /\ UNCHANGED <<config, entry, site, retry, driver, run_session, runs, wait, setup_log,
                   cookie_file, login_calls, login_ret, listVars, searchVars, detailVars,
                   job_data, exc>>

NextCookies == LoadCookies

SpecCookies == InitCookies /\ [][NextCookies]_vars

(***************************************************************************)
(* Properties.                                                             *)
(***************************************************************************)
Range(f) == {f[k] : k \in DOMAIN f}

\* the operations logged for page or item n
OpsOf(log, n) == {e.op : e \in {x \in Range(log) : x.n = n}}

\* the pages or items requested, in order
Gets(log) == SelectSeq(log, LAMBDA e : e.op = "get")

\* C1: scrape_job_details returns exactly one record per input record, in
\* input order: after k iterations detailed_jobs holds k records, the k-th
\* built from the k-th input record by one of the three branches (found,
\* timeout, other exception), and the returned list has the input's length.
C1_OneRecordPerInput ==
    /\ i <= Len(unique_job_listings)
    /\ Len(detailed_jobs) = i
    /\ \A k \in 1..Len(detailed_jobs) :
        \E o \in DetailOutcomesFor(unique_job_listings[k], entry) :
            detailed_jobs[k] = detail_record(unique_job_listings[k], o)
    /\ pc = "done" =>
        /\ outcome = "returned"
        /\ result = detailed_jobs
        /\ Len(result) = Len(unique_job_listings)

\* a call on three records whose items are found, time out and raise
C1_Witness ==
    /\ pc = "done" /\ entry = "scrape_job_details"
    /\ Len(unique_job_listings) = 3 /\ Len(result) = 3
    /\ OpsOf(item_log, 0) = {"get", "text", "delay"}
    /\ "timeout" \in OpsOf(item_log, 1)
    /\ "error" \in OpsOf(item_log, 2)

\* the indices of all_job_listings that hold the first record with their job_id
FirstOccurrences(list) ==
    {k \in 1..Len(list) : \A j \in 1..(k - 1) : list[j].job_id # list[k].job_id}

\* the m-th smallest element of a set of indices
NthIndex(S, m) == CHOOSE k \in S : Cardinality({j \in S : j <= k}) = m

\* C2: the deduplicated list holds exactly one record per distinct job_id of
\* the combined list, namely the first record with that job_id, and the
\* retained records are in first-occurrence order.
C2_DedupFirstWins ==
    (entry = "run" /\ pc \in {"detail_item", "details_return", "finally", "done"} /\ exc = NoExc) =>
        /\ Len(unique_job_listings) = Cardinality(FirstOccurrences(all_job_listings))
        /\ \A m \in 1..Len(unique_job_listings) :
            unique_job_listings[m]
                = all_job_listings[NthIndex(FirstOccurrences(all_job_listings), m)]
        /\ \A a, b \in 1..Len(unique_job_listings) :
            a # b => unique_job_listings[a].job_id # unique_job_listings[b].job_id
        /\ {r.job_id : r \in Range(unique_job_listings)} = {r.job_id : r \in Range(all_job_listings)}

\* a combined list of four records with two job_ids: the later records with
\* a job_id differ from the first one and are not retained
C2_Witness ==
    /\ entry = "run" /\ pc = "done" /\ outcome = "returned"
    /\ Len(all_job_listings) = 4 /\ Len(unique_job_listings) = 2
    /\ unique_job_listings[1] = all_job_listings[1]
    /\ \E k \in 2..4 : /\ all_job_listings[k].job_id = all_job_listings[1].job_id
                       /\ all_job_listings[k] # all_job_listings[1]

\* C3: when run() has created a session, the session is live while the
\* stages run, no operation reaches it after quit(), and when control is
\* back at the caller it has been quit exactly once; an exception that
\* escaped a stage reaches the caller as an exception.
C3_SessionReleased ==
    /\ (entry = "run" /\ run_session # 0) =>
        /\ pc # "done" => sessions[run_session].state = "live"
        /\ pc = "done" => sessions[run_session].state = "quit" /\ sessions[run_session].quits = 1
        /\ sessions[run_session].late_ops = 0
    /\ (entry = "run" /\ pc = "done") =>
        /\ exc # NoExc => outcome = "raised"
        /\ exc = NoExc => outcome = "returned"

\* setup_driver raised after the session existed: quit, then the re-raise
C3_Witness ==
    /\ entry = "run" /\ pc = "done"
    /\ run_session # 0 /\ sessions[run_session].state = "quit"
    /\ exc = StartExc /\ outcome = "raised"

\* C4: when setup_driver() fails its exception leaves run(), and that run
\* calls no login() and requests no listing page and no detail page.
C4_SetupFailureIsFatal ==
    (entry = "run" /\ exc = StartExc) =>
        /\ pc \in {"except", "finally", "done"}
        /\ pc = "done" => outcome = "raised"
        /\ login_calls = 0 /\ login_log = <<>>
        /\ pair_log = <<>> /\ page_log = <<>> /\ item_log = <<>>
        /\ result = <<>>

\* the browser could not be started: run() raised without a session
C4_Witness ==
    /\ entry = "run" /\ pc = "done" /\ outcome = "raised"
    /\ exc = StartExc /\ run_session = 0 /\ login_calls = 0

\* the (keyword, location) pairs scraped so far, in order
Scraped == SelectSeq(pair_log, LAMBDA e : e.op = "scrape")

\* the configured cross-product, keywords outer, locations inner
IsCrossProduct(cfg, pairs) ==
    /\ Len(pairs) = Len(cfg.keywords) * Len(cfg.locations)
    /\ \A k \in 1..Len(pairs) :
        /\ pairs[k].keyword = cfg.keywords[((k - 1) \div Len(cfg.locations)) + 1]
        /\ pairs[k].location = cfg.locations[((k - 1) % Len(cfg.locations)) + 1]

\* C5: login() never raises, whatever operation of it fails: once called it
\* has returned a boolean and no exception is in flight, and the run ends
\* by returning after scraping every configured (keyword, location) pair.
C5_LoginNonFatal ==
    (entry = "run" /\ login_calls > 0) =>
        /\ login_calls = 1
        /\ login_ret \in BOOLEAN
        /\ exc = NoExc /\ pc \notin {"except", "idle", "setup_driver", "login"}
        /\ pc = "done" => outcome = "returned" /\ IsCrossProduct(config, Scraped)

\* the login form was requested and the form interaction failed, login()
\* returned false, and both configured pairs were scraped
C5_Witness ==
    /\ entry = "run" /\ pc = "done" /\ outcome = "returned"
    /\ login_log = <<"get_root", "get_login">>
    /\ login_ret = FALSE
    /\ Len(Scraped) = 2

\* C6: with use_credentials disabled, when no is_logged_in() check reported
\* a logged-in state (or no cookie file existed), login() returned false
\* without raising and without requesting the login form, and run() returns
\* the detail-enriched records of the listings found.
C6_LoginFallback ==
    (/\ entry = "run" /\ login_calls > 0
     /\ ~config.use_credentials
     /\ "logged_in" \notin Range(login_log)) =>
        /\ login_ret = FALSE
        /\ "get_login" \notin Range(login_log)
        /\ exc = NoExc
        /\ pc = "done" =>
            /\ outcome = "returned"
            /\ Len(result) = Len(unique_job_listings)
            /\ \A k \in 1..Len(result) : "job_description" \in DOMAIN result[k]

\* credentials are configured but disabled, the cookie check says not
\* logged in, and the run returns two enriched records
C6_Witness ==
    /\ entry = "run" /\ pc = "done" /\ outcome = "returned"
    /\ ~config.use_credentials /\ config.email # ""
    /\ "not_logged_in" \in Range(login_log)
    /\ login_ret = FALSE
    /\ Len(result) = 2

\* the text logged for item n under operation op
MsgOf(log, n, op) == (CHOOSE e \in Range(log) : e.n = n /\ e.op = op).msg

\* C7: a record whose item timed out carries exactly the failure marker, a
\* record whose item raised another exception carries the error marker that
\* embeds the exception message, and a record whose description was found
\* carries the extracted description, which is no marker.
C7_FailureMarkers ==
    \A k \in 1..Len(detailed_jobs) :
        LET d == detailed_jobs[k]
            ops == OpsOf(item_log, k - 1)
        IN /\ "job_description" \in DOMAIN d
           /\ "timeout" \in ops => d.job_description = FAIL_MARKER
           /\ "error" \in ops =>
                /\ d.job_description # ""
                /\ d.job_description = ERROR_PREFIX \o MsgOf(item_log, k - 1, "error") \o ERROR_SUFFIX
           /\ "text" \in ops =>
                /\ d.job_description = MsgOf(item_log, k - 1, "text")
                /\ d.job_description # FAIL_MARKER

\* C8: every record of the detail stage has a job_description that is a
\* non-empty string.
C8_DescriptionNonEmpty ==
    \A k \in 1..Len(detailed_jobs) :
        /\ "job_description" \in DOMAIN detailed_jobs[k]
        /\ detailed_jobs[k].job_description # ""

\* C10 as stated: at most pages navigations, fewer than pages when a page
\* was skipped on timeout, pages 1, 2, ... in order without repetition.
C10_FewerOnTimeoutSkip ==
    pc = "done" =>
        /\ Len(Gets(page_log)) <= pages
        /\ "timeout" \in {e.op : e \in Range(page_log)} => Len(Gets(page_log)) < pages
        /\ \A k \in 1..Len(Gets(page_log)) : Gets(page_log)[k].n = k

\* C10 amended: the pages loaded are 1, 2, ... in order, each once, at most
\* pages of them; all of them are loaded, skipped ones included, unless the
\* handler of an exception other than the wait timeout ends the loop at the
\* page it was loading.
C10_Navigations ==
    LET g == Gets(page_log)
        ops == {e.op : e \in Range(page_log)}
    IN /\ \A k \in 1..Len(g) : g[k].n = k
       /\ Len(g) <= pages
       /\ (pc = "done" /\ "error" \notin ops) => Len(g) = pages
       /\ "error" \in ops =>
            /\ page_log[Len(page_log)] = Event("error", Len(g))
            /\ pc \in {"listing_return", "done"}

\* two pages, the first skipped on timeout, and two navigations
C10_Witness ==
    /\ entry = "scrape_job_listings" /\ pc = "done"
    /\ pages = 2
    /\ "timeout" \in OpsOf(page_log, 1)
    /\ Len(Gets(page_log)) = 2

\* the value of the query parameter that starts with the token name
ParamOf(url, name) == BeforeFirst(AfterFirst(url, name), "&")

\* enc is txt with every space, and nothing else, replaced by %20
IsEncodingOf(enc, txt) ==
    /\ Len(enc) = Len(txt)
    /\ \A k \in 1..Len(txt) : enc[k] = (IF txt[k] = " " THEN "%20" ELSE txt[k])

\* C11: the URL construct_search_url returns has the parameters keywords and
\* location with every space of the argument replaced by %20, the fixed
\* recency and geography parameters, and start = (page - 1) * 25; for
\* ("Data Engineer", "United States", 3) it is the URL written out below, and
\* page 1 gives start=0.
C11_SearchUrl ==
    (entry = "construct_search_url" /\ pc = "done") =>
        /\ result = search_url
        /\ IsEncodingOf(ParamOf(result, "keywords="), keyword)
        /\ IsEncodingOf(ParamOf(result, "location="), location)
        /\ ~Contains(result, " ")
        /\ Contains(result, "f_TPR=r86400") /\ Contains(result, "geoId=92000000")
        /\ ParamOf(result, "start=") = <<ToString((page - 1) * 25)>>
        /\ page = 1 => ParamOf(result, "start=") = <<"0">>
        /\ (keyword = DataEngineer /\ location = UnitedStates /\ page = 3) =>
               Join(result) = "https://www.linkedin.com/jobs/search/?keywords=Data%20Engineer"
                              \o "&location=United%20States&f_TPR=r86400&geoId=92000000&start=50"

\* the URL of page 3 of ("Data Engineer", "United States") was constructed
C11_Witness ==
    /\ entry = "construct_search_url" /\ pc = "done"
    /\ keyword = DataEngineer /\ location = UnitedStates /\ page = 3
    /\ ParamOf(result, "keywords=") = <<"Data", "%20", "Engineer">>
    /\ ParamOf(result, "start=") = <<"50">>

\* C12: with the session established and no exception escaping a stage,
\* run() returns, and the list it returns has exactly one record per distinct
\* job_id of the listing records extracted over all pairs and pages, in the
\* order of the deduplicated list; it is the empty list when nothing was
\* extracted or no keyword or no location is configured.
C12_OnePerDistinctId ==
    (entry = "run" /\ run_session # 0 /\ pc = "done" /\ exc = NoExc) =>
        /\ outcome = "returned"
        /\ result = job_data
        /\ Len(result) = Cardinality({r.job_id : r \in Range(all_job_listings)})
        /\ Len(result) = Cardinality(FirstOccurrences(all_job_listings))
        /\ \A k \in 1..Len(result) : "job_description" \in DOMAIN result[k]
        /\ Len(Gets(item_log)) = Len(result)
        /\ all_job_listings = <<>> => result = <<>>
        /\ (config.keywords = <<>> \/ config.locations = <<>>) => result = <<>>

\* one search of two pages: 3 items, then 2 items of which one has the job_id
\* of an item of the first page; every detail fetch succeeded; 4 records
C12_Witness ==
    /\ entry = "run" /\ pc = "done" /\ outcome = "returned"
    /\ Len(pair_log) = 1 /\ config.pages_per_search = 2
    /\ [k \in 1..Len(all_job_listings) |-> all_job_listings[k].job_id]
           = <<"101", "202", "505", "101", "606">>
    /\ Len(result) = 4
    /\ \A k \in 1..4 : result[k].job_description = "We build"

\* C13: no exception of a page or of an item leaves scrape_job_listings or
\* scrape_job_details: an exception is in flight, or run() is in its except
\* clause, only if no listing page and no detail page was requested, and a
\* call that has ended has returned its list.
C13_StagesNeverRaise ==
    /\ (exc # NoExc \/ pc = "except") =>
            /\ entry = "run"
            /\ page_log = <<>> /\ pair_log = <<>> /\ item_log = <<>>
    /\ pc = "done" => outcome = (IF exc = NoExc THEN "returned" ELSE "raised")
    /\ (pc = "done" /\ exc = NoExc /\ entry = "run") =>
            /\ Len(SelectSeq(pair_log, LAMBDA e : e.op = "scrape"))
                    = Len(config.keywords) * Len(config.locations)
            /\ Len(result) = Len(unique_job_listings)

\* a run whose last listing call lost its second page to a navigation error,
\* and whose two detail items failed, one by timeout and one by an exception:
\* both records are returned with a marker
C13_Witness ==
    /\ entry = "run" /\ pc = "done" /\ outcome = "returned"
    /\ "error" \in OpsOf(page_log, 2)
    /\ "timeout" \in OpsOf(item_log, 0) /\ "error" \in OpsOf(item_log, 1)
    /\ Len(result) = 2
    /\ result[1].job_description = FAIL_MARKER
    /\ result[2].job_description = error_marker(DriverExc)

\* C14: whatever fails while listing page p is loaded or processed, the
\* records of the pages before p are kept and the pages p + 1 .. pages are
\* still requested: a call that has ended has requested every page 1 .. pages.
C14_PageGranularity ==
    /\ [k \in 1..Len(Gets(page_log)) |-> Gets(page_log)[k].n] \in {<<>>} \cup {[k \in 1..m |-> k] : m \in 1..pages}
    /\ (entry = "scrape_job_listings" /\ pc = "done") =>
            {e.n : e \in Range(Gets(page_log))} = 1..pages

\* the items of the pages found so far whose four elements are all present,
\* in page order
RECURSIVE ItemsKept(_)
ItemsKept(log) ==
    IF log = <<>> THEN <<>>
    ELSE (IF Head(log).op = "found"
          THEN SelectSeq(Head(log).items,
                         LAMBDA it : Missing \notin {it.link, it.title, it.company, it.location})
          ELSE <<>>)
         \o ItemsKept(Tail(log))

\* C9: in a call of scrape_job_listings that has ended, every page after a
\* page p < pages whose wait timed out was navigated, the records of the
\* items extracted on the other pages are the returned list, and the call
\* returned without raising.
C9_TimeoutSkipsPage ==
    (entry = "scrape_job_listings" /\ pc = "done") =>
        /\ outcome = "returned" /\ exc = NoExc
        /\ result = job_listings /\ Len(result) = Len(ItemsKept(page_log))
        /\ \A j \in 1..Len(page_log) :
              (page_log[j].op = "timeout" /\ page_log[j].n < pages) =>
                  \A q \in (page_log[j].n + 1)..pages :
                      \E e \in Range(Gets(page_log)) : e.n = q

\* C15: on the pages whose results container was found, an item with a
\* missing link, title, company or location element yields no record and
\* every other item yields exactly one; the list of the call is these
\* records in page order, pages in the order they were loaded, and it is the
\* list returned.
C15_ItemDropped ==
    LET kept == ItemsKept(page_log)
    IN /\ Len(job_listings) = Len(kept)
       /\ \A k \in 1..Len(job_listings) :
            /\ job_listings[k].job_link = kept[k].link
            /\ job_listings[k].job_title = StripText(kept[k].title)
            /\ job_listings[k].company = StripText(kept[k].company)
            /\ job_listings[k].location = StripText(kept[k].location)
            /\ job_listings[k].search_keyword = keyword
            /\ job_listings[k].search_location = location
       /\ (entry = "scrape_job_listings" /\ pc = "done") => result = job_listings

\* page 1 had a good item and then an item without title, page 2 an item
\* without link element and then a good one: two records, in page order
C15_Witness ==
    /\ entry = "scrape_job_listings" /\ pc = "done" /\ outcome = "returned"
    /\ \E a, b \in 1..Len(page_log) :
        /\ a < b
        /\ page_log[a] = FoundEvent(1, <<ItemA, ItemNoTitle>>)
        /\ page_log[b] = FoundEvent(2, <<ItemNoLink, ItemNoHref>>)
    /\ Len(result) = 2
    /\ result[1].job_title = "Dev" /\ result[2].job_title = "QA"

\* the number of listing scrapes among the first k entries of pair_log
ScrapesUpTo(k) == Cardinality({j \in 1..k : pair_log[j].op = "scrape"})

\* C16: the listing scrape of every pair of the cross-product but the last is
\* followed by the inter-combination delay, and the scrape of the last pair
\* is not, whatever values the two lists hold.
C16_DelayBetweenPairs ==
    \A k \in 1..Len(pair_log) :
        pair_log[k].op = "scrape" =>
            IF ScrapesUpTo(k) < Len(config.keywords) * Len(config.locations)
            THEN k < Len(pair_log) /\ pair_log[k + 1].op = "delay"
            ELSE k = Len(pair_log)

\* C17: between every two consecutive detail-page requests there is an
\* inter-item delay, whatever became of the earlier item, and no inter-item
\* delay follows the last item.
C17_DelayBetweenItems ==
    /\ \A a, b \in 1..Len(item_log) :
        (a < b /\ item_log[a].op = "get" /\ item_log[b].op = "get") =>
            \E c \in (a + 1)..(b - 1) : item_log[c].op = "delay"
    /\ \A c \in 1..Len(item_log) :
        item_log[c].op = "delay" => item_log[c].n < Len(unique_job_listings) - 1

\* C18: between every two consecutive listing-page loads there is an
\* inter-page delay, also when the earlier page was skipped on the timeout
\* of its results container, and no inter-page delay follows the last page.
C18_DelayBetweenPages ==
    /\ \A a, b \in 1..Len(page_log) :
        (a < b /\ page_log[a].op = "get" /\ page_log[b].op = "get") =>
            \E c \in (a + 1)..(b - 1) : page_log[c].op = "delay"
    /\ \A c \in 1..Len(page_log) : page_log[c].op = "delay" => page_log[c].n < pages

\* the stage of run() a position belongs to
StageOf(p) ==
    CASE p = "idle" -> 0
      [] p = "setup_driver" -> 1
      [] p = "login" -> 2
      [] p \in {"search", "listing_page", "listing_return"} -> 3
      [] p = "dedup" -> 4
      [] p \in {"detail_item", "details_return"} -> 5
      [] OTHER -> 6

\* what C19 says of each state of a run()
C19_State ==
    entry = "run" =>
        \* login() is called once, after setup_driver() has created the session
        /\ login_calls <= 1
        /\ login_calls = 1 => run_session # 0
        /\ StageOf(pc) <= 2 => (login_calls = 0 /\ page_log = <<>> /\ pair_log = <<>>)
        \* no listing page is requested before login() has returned
        /\ (page_log # <<>> \/ pair_log # <<>>) => (login_calls = 1 /\ StageOf(pc) >= 3)
        \* the pairs are scraped in cross-product order, keywords outer
        /\ Len(Scraped) <= Len(config.keywords) * Len(config.locations)
        /\ \A k \in 1..Len(Scraped) :
            /\ Scraped[k].keyword = config.keywords[((k - 1) \div Len(config.locations)) + 1]
            /\ Scraped[k].location = config.locations[((k - 1) % Len(config.locations)) + 1]
        \* deduplication and details come after the scrape of the last pair
        /\ StageOf(pc) \in {4, 5} => Len(Scraped) = Len(config.keywords) * Len(config.locations)
        /\ StageOf(pc) <= 4 => item_log = <<>>
        /\ item_log # <<>> =>
            /\ Len(Scraped) = Len(config.keywords) * Len(config.locations)
            /\ unique_job_listings = deduplicate(all_job_listings)
        \* detail pages are requested in the order of the deduplicated list
        /\ \A k \in 1..Len(Gets(item_log)) : Gets(item_log)[k].n = k - 1
        /\ Len(detailed_jobs) <= Len(unique_job_listings)
        /\ \A k \in 1..Len(detailed_jobs) :
            detailed_jobs[k].job_link = unique_job_listings[k].job_link

\* C19: run() goes through its stages in the order setup_driver, login,
\* listing scrapes in cross-product order, deduplication, detail scraping,
\* and never back to an earlier stage.
C19_StageOrder ==
    /\ []C19_State
    /\ [][StageOf(pc') >= StageOf(pc)]_vars

\* a run over two keywords and one location that returned two records
C19_Witness ==
    /\ entry = "run" /\ pc = "done" /\ outcome = "returned"
    /\ login_calls = 1
    /\ Len(Scraped) = 2
    /\ Scraped[1].keyword = Python /\ Scraped[2].keyword = ML
    /\ Len(Gets(item_log)) = 2 /\ Len(result) = 2

(***************************************************************************)
(* Anti-detection in setup_driver.                                         *)
(***************************************************************************)
CallsOf(log) == {log[k] : k \in 1..Len(log)}

\* a countermeasure of the anti-detection layer failed on the session
AntiFailed(log) ==
    "anti_detection_error" \in CallsOf(log) \/ "js_evasions_error" \in CallsOf(log)

\* the session was navigated: login(), a listing page or a detail page
Navigated == login_calls > 0 \/ page_log # <<>> \/ item_log # <<>>

C20_State ==
    /\ \A a \in AntiOutcomes : setup_anti_detection(a) = NoExc
    /\ Navigated =>
          /\ Len(setup_log) >= 2
          /\ setup_log[1] = "Chrome" /\ setup_log[2] = "stealth"
    /\ AntiFailed(setup_log) => "set_page_load_timeout" \in CallsOf(setup_log)
    /\ (AntiFailed(setup_log) /\ pc = "login") =>
          /\ setup_log[Len(setup_log)] = "WebDriverWait"
          /\ wait = driver /\ driver # 0
          /\ exc = NoExc

\* C20: setup_driver applies the anti-detection layer to the new session
\* before any navigation of the run, and a failure inside the layer is not
\* fatal: setup_anti_detection never raises, setup_driver goes on to set
\* the page-load timeout and, unless that call itself fails, creates the
\* wait helper and returns normally, so that run() continues with login()
C20_AntiDetection ==
    /\ []C20_State
    /\ [][(setup_log' # setup_log) => (pc = "setup_driver" /\ ~Navigated)]_vars
    /\ [][(pc = "setup_driver" /\ AntiFailed(setup_log')
            /\ setup_log'[Len(setup_log')] = "WebDriverWait")
           => (pc' = "login" /\ exc' = NoExc /\ wait' = driver')]_vars

\* stealth(...) raised, the run went on to log in, search and scrape a
\* detail page, and returned
C20_Witness ==
    /\ setup_log = <<"Chrome", "stealth", "anti_detection_error",
                     "set_page_load_timeout", "WebDriverWait">>
    /\ wait = driver /\ driver # 0
    /\ login_calls = 1
    /\ \E k \in 1..Len(page_log) : page_log[k].op = "get"
    /\ \E k \in 1..Len(item_log) : item_log[k].op = "get"
    /\ outcome = "returned"

(***************************************************************************)
(* One countermeasure failing leaves the other applied.                    *)
(***************************************************************************)
\* C21: when one anti-detection countermeasure fails, only that one is
\* missing: a session on which stealth(...) raised still gets the evasion
\* script executed, and one on which the evasion script raised has had
\* stealth(...) called before
C21_OtherCountermeasureApplied ==
    /\ "anti_detection_error" \in CallsOf(setup_log) => "execute_script" \in CallsOf(setup_log)
    /\ "js_evasions_error" \in CallsOf(setup_log) =>
          \E k \in 1..Len(setup_log) :
              /\ setup_log[k] = "stealth"
              /\ \E m \in (k + 1)..Len(setup_log) : setup_log[m] = "execute_script"

(***************************************************************************)
(* login(): cookies first, the form as fallback, the last check decides.   *)
(***************************************************************************)
\* the answers of the is_logged_in() checks of a login() call, in order
ChecksOf(log) == SelectSeq(log, LAMBDA e : e \in {"logged_in", "not_logged_in"})

\* the positions of operation op in a login log
PositionsOf(log, op) == {k \in 1..Len(log) : log[k] = op}

\* the check that follows the cookies, with no login form before it, said
\* logged in
CookieConfirmed(log) ==
    \E m \in PositionsOf(log, "logged_in") :
        /\ "refresh" \in {log[k] : k \in 1..(m - 1)}
        /\ "get_login" \notin {log[k] : k \in 1..(m - 1)}

\* C22: login() attempts cookie authentication first and returns true
\* without touching the login form when is_logged_in() confirms it; the
\* login form is requested only if cookie authentication did not confirm a
\* logged-in state, use_credentials is enabled and email and password are
\* both non-empty; login() returns true exactly if the last is_logged_in()
\* check it performed returned true.
C22_LoginProtocol ==
    (entry = "run" /\ login_calls > 0) =>
        /\ exc = NoExc
        /\ \A k \in PositionsOf(login_log, "get_login") :
              /\ \A m \in 1..Len(login_log) :
                    login_log[m] \in {"get_root", "add_cookies", "refresh"} => m < k
              /\ \A m \in 1..(k - 1) : login_log[m] # "logged_in"
              /\ config.use_credentials
              /\ config.email # "" /\ config.password # ""
        /\ CookieConfirmed(login_log) =>
              /\ login_ret = TRUE
              /\ "get_login" \notin Range(login_log)
        /\ login_ret = TRUE <=>
              /\ ChecksOf(login_log) # <<>>
              /\ ChecksOf(login_log)[Len(ChecksOf(login_log))] = "logged_in"

\* the cookies were applied but the check said not logged in, the form was
\* submitted and the second check confirmed: login() returned true
C22_Witness ==
    /\ entry = "run" /\ login_calls = 1
    /\ login_log = <<"get_root", "add_cookies", "refresh", "get_feed", "not_logged_in",
                     "get_login", "submit", "get_feed", "logged_in", "save_cookies">>
    /\ login_ret = TRUE

(***************************************************************************)
(* The cookie file.                                                        *)
(***************************************************************************)
\* the log of a login() call whose credential login was confirmed by
\* is_logged_in() and which went on to save_cookies()
CredentialLoginConfirmed(cfg, log) ==
    /\ cfg.use_credentials /\ cfg.email # "" /\ cfg.password # ""
    /\ Len(log) >= 5
    /\ SubSeq(log, Len(log) - 4, Len(log))
         = <<"get_login", "submit", "get_feed", "logged_in", "save_cookies">>

C23_State ==
    "save_cookies" \in Range(login_log) =>
        /\ CredentialLoginConfirmed(config, login_log)
        /\ login_ret = TRUE
        /\ exc = NoExc

\* C23: login() writes the cookie file only after a credential-based login
\* that is_logged_in() confirmed: the file is unchanged when login succeeds
\* through cookies, when credential login fails or raises, and when
\* credentials are disabled or empty; no other step of the run writes it;
\* and login() returns true whether or not saving the cookies failed.
C23_CookieFile ==
    /\ []C23_State
    /\ [][(cookie_file' # cookie_file) =>
            /\ pc = "login"
            /\ CredentialLoginConfirmed(config, login_log')
            /\ login_ret' = TRUE]_vars

\* the credential login was confirmed, save_cookies() failed before it
\* opened the file, which is as it was, and login() returned true
C23_Witness ==
    /\ entry = "run" /\ login_calls = 1
    /\ CredentialLoginConfirmed(config, login_log)
    /\ cookie_file = "old"
    /\ login_ret = TRUE
    /\ pc = "done" /\ outcome = "returned"

(***************************************************************************)
(* load_cookies().                                                         *)
(***************************************************************************)
\* C24: load_cookies() returns whether cookies were present and applied:
\* true only if the cookie file existed and its cookies were added to the
\* session, false without navigating when the file is missing, and false
\* when reading the file or navigating failed.
C24_LoadCookies ==
    (entry = "load_cookies" /\ outcome = "returned") =>
        /\ result = TRUE =>
              /\ cookie_file # "absent"
              /\ "add_cookie_error" \notin Range(login_log)
        /\ cookie_file = "absent" =>
              /\ result = FALSE
              /\ "get_root" \notin Range(login_log) /\ "refresh" \notin Range(login_log)
        /\ "load_error" \in Range(login_log) => result = FALSE

(***************************************************************************)
(* scrape_job_details leaves its input alone.                              *)
(***************************************************************************)
C25_State ==
    (entry = "scrape_job_details" /\ outcome = "returned") =>
        /\ Len(result) = Len(unique_job_listings)
        /\ \A k \in 1..Len(unique_job_listings) :
              /\ unique_job_listings[k] \in InputRecords
              /\ "job_description" \notin DOMAIN unique_job_listings[k]
              /\ \A key \in DOMAIN result[k] \ DOMAIN unique_job_listings[k] :
                    key \in {"job_description", "job_type", "seniority_level", "employment_type",
                            "industries"}

\* C25: scrape_job_details does not modify its input: no iteration changes
\* the input list or a record in it, whether the item succeeded, timed out
\* or raised, and after the call no input record has a job_description or
\* criteria key although every output record has the description.
C25_InputUnchanged ==
    /\ []C25_State
    /\ [][unique_job_listings' = unique_job_listings]_vars

\* a call on three records whose items succeeded with criteria, timed out
\* and raised: three output records with descriptions, the input as it was
C25_Witness ==
    /\ entry = "scrape_job_details" /\ outcome = "returned"
    /\ unique_job_listings = <<RecA, RecA, RecNoHref>>
    /\ Len(result) = 3
    /\ "seniority_level" \in DOMAIN result[1]
    /\ result[2].job_description = FAIL_MARKER
    /\ \E k \in 1..Len(item_log) : item_log[k].op = "error" /\ item_log[k].n = 2

(***************************************************************************)
(* Job type and criteria are best-effort.                                  *)
(***************************************************************************)
\* C26: when the description of an item was found but extracting the job
\* type or a criterion failed, the output record carries the description
\* that was extracted and no failure marker.
C26_AuxFailureKeepsDescription ==
    (entry = "scrape_job_details" /\ outcome = "returned") =>
        \A k \in 1..Len(result) :
            "aux_error" \in OpsOf(item_log, k - 1) =>
                /\ "text" \in OpsOf(item_log, k - 1)
                /\ result[k].job_description = MsgOf(item_log, k - 1, "text")

(***************************************************************************)
(* job_id is always a string.                                              *)
(***************************************************************************)
\* a job_id that is None, as text
NullId == Join(None)

\* the links extract_job_id is given: those of the items, among them None
LinksSeen == {it.link : it \in Range(PageItems) \cup {ItemA2, ItemC, ItemD, ItemNoId}} \ {Missing}

\* extract_job_id on each link, at two times and with both extreme draws:
\* never None, and the generated id where the link has no id
ExtractedIdsAreText ==
    \A link \in LinksSeen, now \in 0..1, rnd \in Rands :
        /\ extract_job_id(link, now, rnd) # NullId
        /\ NeedsRand(link) => extract_job_id(link, now, rnd) = unknown_id(now, rnd)

\* the generated ids whose timestamp is a clock value up to t
GeneratedIds(t) == {unknown_id(now, rnd) : now \in 0..t, rnd \in Rands}

\* C27: extract_job_id returns a string for every link, the generated
\* "unknown_<timestamp>_<random>" for a null link and for a link with neither
\* "currentJobId=" nor "/view/", so every record extracted from a listing
\* page, and every record that reaches the deduplication of run(), has a
\* job_id that is a string and not None; the timestamp of a generated id is
\* a clock value read no later than the record's crawl_time.
C27_JobIdIsString ==
    /\ ExtractedIdsAreText
    /\ \A r \in Range(job_listings) \cup Range(all_job_listings) \cup Range(unique_job_listings) :
          /\ r.job_id # NullId
          /\ NeedsRand(r.job_link) => r.job_id \in GeneratedIds(r.crawl_time)
    /\ pc \in {"dedup", "detail_item", "details_return"} => exc = NoExc

\* the deduplication of a run received a record of an item whose href is
\* null and one whose link has neither marker, each with a generated id,
\* one of them stamped a second before the record's crawl_time
C27_Witness ==
    /\ entry = "run" /\ pc = "detail_item"
    /\ \E a, b \in 1..Len(unique_job_listings) :
          /\ unique_job_listings[a].job_link = None
          /\ unique_job_listings[b].job_link = ItemNoId.link
          /\ unique_job_listings[a].job_id # unique_job_listings[b].job_id
          /\ unique_job_listings[a].crawl_time > 0
          /\ unique_job_listings[a].job_id
                \in GeneratedIds(unique_job_listings[a].crawl_time - 1)
          /\ unique_job_listings[b].job_id \in GeneratedIds(unique_job_listings[b].crawl_time)

(***************************************************************************)
(* One session per run, quit once.                                         *)
(***************************************************************************)
\* C28: over every sequence of run() calls on one crawler, each run creates
\* at most one browser session, a session is live until the finally clause
\* of the run that created it, and quit() is called on no session that has
\* already been quit.
C28_OneSessionQuitOnce ==
    entry = "run" =>
        /\ Len(sessions) <= runs
        /\ \A s \in 1..Len(sessions) :
              /\ sessions[s].quits <= 1
              /\ sessions[s].state = "quit" => (s # run_session \/ pc = "done")

(***************************************************************************)
(* The listing fields in the output records.                               *)
(***************************************************************************)
ListingFields ==
    {"job_id", "job_title", "company", "location", "job_link", "search_keyword",
     "search_location", "crawl_time"}

\* C29: every output record of scrape_job_details has the listing fields of
\* its input record unchanged, and the record of an item whose description
\* was found has that description as job_description, whatever labels the
\* criteria of the page have.
C29_ListingFieldsPreserved ==
    (entry = "scrape_job_details" /\ outcome = "returned") =>
        \A k \in 1..Len(result) :
            /\ \A f \in ListingFields \cap DOMAIN unique_job_listings[k] :
                  result[k][f] = unique_job_listings[k][f]
            /\ "text" \in OpsOf(item_log, k - 1) =>
                  result[k].job_description = MsgOf(item_log, k - 1, "text")

(***************************************************************************)
(* retry_function.                                                         *)
(***************************************************************************)
CallsIn(log) == SelectSeq(log, LAMBDA e : e.op = "call")
SleepsIn(log) == SelectSeq(log, LAMBDA e : e.op = "sleep")

RECURSIVE Pow(_, _)
Pow(b, k) == IF k = 0 THEN 1 ELSE b * Pow(b, k - 1)

\* C30: the wrapper calls func at most max_retries times, returns the
\* result of the first call that does not raise a listed exception, sleeps
\* delay, delay*backoff, delay*backoff^2, ... between consecutive attempts
\* and never after the last, re-raises the last exception once max_retries
\* attempts have failed, propagates an exception that is not listed at once,
\* and with max_retries <= 0 returns None without calling func.
C30_RetryWrapper ==
    entry = "retry_function" =>
        LET calls == CallsIn(retry.log)
            sleeps == SleepsIn(retry.log)
        IN /\ Len(calls) <= IF retry.max_retries > 0 THEN retry.max_retries ELSE 0
           /\ \A k \in 1..Len(retry.log) :
                 retry.log[k].op = (IF k % 2 = 1 THEN "call" ELSE "sleep")
           /\ \A k \in 1..Len(sleeps) : sleeps[k].n = retry.delay * Pow(retry.backoff, k - 1)
           /\ \A k \in 1..Len(calls) :
                 /\ calls[k].n = k
                 /\ (k < Len(calls) \/ pc # "done") => calls[k].out = "listed"
           /\ pc = "done" =>
                 /\ retry.max_retries <= 0 =>
                       retry.log = <<>> /\ outcome = "returned" /\ result = None
                 /\ retry.max_retries > 0 =>
                       /\ retry.log # <<>>
                       /\ retry.log[Len(retry.log)].op = "call"
                       /\ LET last == retry.log[Len(retry.log)].out
                          IN /\ last = "ok" =>
                                   outcome = "returned" /\ result \in FuncResults /\ exc = NoExc
                             /\ last = "unlisted" => outcome = "raised" /\ exc = UnlistedExc
                             /\ last = "listed" =>
                                   /\ outcome = "raised" /\ exc = ListedExc
                                   /\ Len(calls) = retry.max_retries

\* three attempts with delay 3 and backoff 2: two listed failures, sleeps of
\* 3 and 6, and the third call's result returned
C30_Witness ==
    /\ entry = "retry_function" /\ pc = "done" /\ outcome = "returned"
    /\ retry.max_retries = 3 /\ retry.delay = 3 /\ retry.backoff = 2
    /\ retry.log = <<CallEvent(1, "listed"), SleepEvent(3), CallEvent(2, "listed"),
                     SleepEvent(6), CallEvent(3, "ok")>>
    /\ result = <<"second">>
====
